---- MODULE Spec2Model ----
(***************************************************************************)
(* Model of the LecsGO entity/component world (src/world.go), its filters  *)
(* (src/filter.go, first version in the file: EntitiesWithLock / Unlock),  *)
(* the bit set and index pool (src/helper.go) and the generated component  *)
(* accessors Set<T> / Del<T> (template in src/cmd/world-gen/world-gen.go). *)
(* Go slices are sequences (Go index i is TLA+ index i+1), Go maps are     *)
(* functions over their key set, a panic is recorded in the variable       *)
(* fault and stops the program.                                            *)
(***************************************************************************)
EXTENDS Integers, Sequences, FiniteSets, TLC

\* ------------------------------------------------------------------ bounds
\* Largest number of NewEntity() calls in one run.
MaxCreates == 2
\* Deepest nesting of EntitiesWithLock() on one filter.
MaxLock == 2
\* Largest number of NewEntity() calls in the runs that reuse slots (SpecReuse).
MaxEntities == 3
\* Largest number of systems added to a Systems container.
MaxSystems == 2
\* Largest number of Systems.Run() calls in one run.
MaxRuns == 2
\* Largest component-type ID of the worlds in which the compatibility tests
\* are applied to every filter and every mask (SpecCompat).
MaxTypeID == 2
\* Largest length of the include and of the exclude list of those filters.
MaxConstraints == 2

\* --------------------------------------------------------- build constants
\* DEBUG builds are the default build (README.md:5).
DEBUG == TRUE
\* helper.go:35
chunkSize == 64
\* World.componentsCount: the number of component types of the generated
\* world, here the components C1 and C2 of README.md:205-213.
componentsCount == 2

NoFault == ""

\* int16 conversion: Go signed arithmetic wraps in two's complement.
Int16(x) == ((x + 32768) % 65536) - 32768
RECURSIVE Pow2(_)
Pow2(n) == IF n = 0 THEN 1 ELSE 2 * Pow2(n - 1)

Range(s) == {s[i] : i \in 1..Len(s)}

\* ------------------------------------------------------------ helper.go
\* indexPool.Push
Push(p, idx) == Append(p, idx)

\* A variant of indexPool.Pop that returns the last index and leaves it in
\* the pool.
PopPeek(p) ==
    IF Len(p) = 0 THEN [value |-> 0, ok |-> FALSE, pool |-> p]
    ELSE [value |-> p[Len(p)], ok |-> TRUE, pool |-> p]

\* indexPool.Pop: (value, ok).
Pop(p) ==
    LET lastIdx == Len(p) - 1 IN
    IF lastIdx < 0
    THEN [pool |-> p, value |-> 0, ok |-> FALSE]
    ELSE [pool |-> SubSeq(p, 1, lastIdx), value |-> p[lastIdx + 1], ok |-> TRUE]

\* NewBitSet: (cap-1)/chunkSize+1 zero chunks, computed in uint16 (a cap of
\* 0 wraps to 65535).
NewBitSet(cap) == [i \in 1..(((cap - 1) % 65536) \div chunkSize + 1) |-> 0]

\* BitSet.Get
BitSetGet(s, i) == (s[i \div chunkSize + 1] \div Pow2(i % chunkSize)) % 2 = 1

\* BitSet.Set: chunk |= 1 << (i % chunkSize)
BitSetSet(s, i) ==
    IF BitSetGet(s, i) THEN s
    ELSE [s EXCEPT ![i \div chunkSize + 1] = @ + Pow2(i % chunkSize)]

\* BitSet.Unset: chunk &^= 1 << (i % chunkSize), guarded by the length test.
BitSetUnset(s, i) ==
    IF Len(s) >= i \div chunkSize + 1 /\ BitSetGet(s, i)
    THEN [s EXCEPT ![i \div chunkSize + 1] = @ - Pow2(i % chunkSize)]
    ELSE s

\* sort.Search(n, f) with f(i) = Mask[i] > id (strict) or Mask[i] >= id.
RECURSIVE SearchLoop(_, _, _, _, _)
SearchLoop(Mask, id, strict, i, j) ==
    IF i < j
    THEN LET h == (i + j) \div 2
             p == IF strict THEN Mask[h + 1] > id ELSE Mask[h + 1] >= id
         IN  IF ~p THEN SearchLoop(Mask, id, strict, h + 1, j)
                   ELSE SearchLoop(Mask, id, strict, i, h)
    ELSE i

Search(Mask, id, strict) == SearchLoop(Mask, id, strict, 0, Len(Mask))

\* ------------------------------------------------------------ filter.go
\* Go map helpers: m[k] = v, delete(m, k), m[k] (zero value when absent).
MapSet(m, k, v) == [x \in DOMAIN m \cup {k} |-> IF x = k THEN v ELSE m[x]]
MapDelete(m, k) == [x \in DOMAIN m \ {k} |-> m[x]]
MapGet(m, k) == IF k \in DOMAIN m THEN m[k] ELSE 0

\* NewFilter
NewFilter(include, exclude) ==
    [include |-> include, exclude |-> exclude, entities |-> << >>,
     entitiesMap |-> << >>, lockedChanges |-> << >>, lockCount |-> 0]

\* Filter.Count (uint32 of a length the bounds keep far below 2^32)
Count(f) == Len(f.entities)

\* Filter.Entities
EntitiesOf(f) == f.entities

\* A variant of Filter.add that ignores the lock counter.
addEagerly(f, e) ==
    [filter |-> [f EXCEPT !.entitiesMap = MapSet(@, e, Len(f.entities)),
                          !.entities = Append(@, e)],
     fault |-> NoFault]

\* Filter.add: result is the filter and the panic message, if any.
add(f, e) ==
    IF f.lockCount > 0
    THEN [filter |-> [f EXCEPT !.lockedChanges =
                          Append(@, [Entity |-> e, Add |-> TRUE])],
          fault |-> NoFault]
    ELSE IF DEBUG /\ e \in DOMAIN f.entitiesMap
    THEN [filter |-> f, fault |-> "entity already in filter"]
    ELSE [filter |-> [f EXCEPT !.entitiesMap = MapSet(@, e, Len(f.entities)),
                               !.entities = Append(@, e)],
          fault |-> NoFault]

\* Filter.remove: swap with the last element, truncate, delete the map key.
\* The map entry of the element moved into position idx is not rewritten.
remove(f, e) ==
    IF f.lockCount > 0
    THEN [filter |-> [f EXCEPT !.lockedChanges =
                          Append(@, [Entity |-> e, Add |-> FALSE])],
          fault |-> NoFault]
    ELSE IF DEBUG /\ e \notin DOMAIN f.entitiesMap
    THEN [filter |-> f, fault |-> "entity not in filter"]
    ELSE LET idx == MapGet(f.entitiesMap, e)
             lastIdx == Len(f.entities) - 1
         IN  IF Len(f.entities) = 0
             \* lastIdx is uint32(0) - 1 = 2^32 - 1 and entities[lastIdx] panics
             THEN [filter |-> f, fault |-> "index out of range"]
             ELSE LET swapped == IF idx < lastIdx
                                 THEN [f.entities EXCEPT ![idx + 1] = f.entities[lastIdx + 1]]
                                 ELSE f.entities
                  IN  [filter |-> [f EXCEPT !.entities = SubSeq(swapped, 1, lastIdx),
                                            !.entitiesMap = MapDelete(@, e)],
                       fault |-> NoFault]

\* Filter.EntitiesWithLock
EntitiesWithLock(f) == [f EXCEPT !.lockCount = @ + 1]

\* The replay loop of Filter.Unlock, from change i on; a panic ends it.
RECURSIVE Replay(_, _)
Replay(f, i) ==
    IF i > Len(f.lockedChanges)
    THEN [filter |-> f, fault |-> NoFault]
    ELSE LET v == f.lockedChanges[i]
             r == IF v.Add THEN add(f, v.Entity) ELSE remove(f, v.Entity)
         IN  IF r.fault # NoFault THEN r ELSE Replay(r.filter, i + 1)

\* A variant of Filter.Unlock without the DEBUG test of the counter.
UnlockNoBalanceCheck(f) ==
    LET f1 == [f EXCEPT !.lockCount = @ - 1] IN
    IF f1.lockCount = 0
    THEN LET r == Replay(f1, 1) IN
         IF r.fault # NoFault THEN r
         ELSE [filter |-> [r.filter EXCEPT !.lockedChanges = << >>], fault |-> NoFault]
    ELSE [filter |-> f1, fault |-> NoFault]

\* A variant of Filter.Unlock that forgets the queue instead of replaying it.
UnlockDropChanges(f) ==
    [filter |-> [f EXCEPT !.lockCount = @ - 1,
                          !.lockedChanges = IF f.lockCount = 1 THEN << >> ELSE @],
     fault |-> NoFault]

\* A variant of Filter.Unlock that replays the queue at every nesting level.
UnlockEveryLevel(f) ==
    LET r == Replay([f EXCEPT !.lockCount = 0], 1) IN
    [filter |-> [r.filter EXCEPT !.lockCount = f.lockCount - 1,
                                 !.lockedChanges = << >>],
     fault |-> r.fault]

\* A variant of Filter.Unlock that replays the queue and does not cut it.
UnlockKeepQueue(f) ==
    LET f1 == [f EXCEPT !.lockCount = @ - 1] IN
    IF DEBUG /\ f1.lockCount < 0
    THEN [filter |-> f1, fault |-> "filter lock/unlock balance broken"]
    ELSE IF f1.lockCount = 0
    THEN Replay(f1, 1)
    ELSE [filter |-> f1, fault |-> NoFault]

\* Filter.Unlock
Unlock(f) ==
    LET f1 == [f EXCEPT !.lockCount = @ - 1] IN
    IF DEBUG /\ f1.lockCount < 0
    THEN [filter |-> f1, fault |-> "filter lock/unlock balance broken"]
    ELSE IF f1.lockCount = 0
    THEN LET r == Replay(f1, 1) IN
         IF r.fault # NoFault THEN r
         ELSE [filter |-> [r.filter EXCEPT !.lockedChanges = << >>], fault |-> NoFault]
    ELSE [filter |-> f1, fault |-> NoFault]

\* Filter.isCompatible
isCompatible(f, entityData) ==
    LET maskLen == Len(entityData.Mask) IN
    /\ \A k \in 1..Len(f.include) :
          LET idx == Search(entityData.Mask, f.include[k], FALSE)
          IN  ~(idx >= maskLen \/ entityData.Mask[idx + 1] # f.include[k])
    /\ \A k \in 1..Len(f.exclude) :
          LET idx == Search(entityData.Mask, f.exclude[k], FALSE)
          IN  ~(idx < maskLen /\ entityData.Mask[idx + 1] = f.exclude[k])

\* A variant of Filter.isCompatibleWithout that tests every exclude type,
\* the ignored one too.
isCompatibleWithoutNoSkip(f, entityData, typeID) ==
    LET maskLen == Len(entityData.Mask) IN
    /\ \A k \in 1..Len(f.include) :
          /\ f.include[k] # typeID
          /\ LET idx == Search(entityData.Mask, f.include[k], FALSE)
             IN  ~(idx >= maskLen \/ entityData.Mask[idx + 1] # f.include[k])
    /\ \A k \in 1..Len(f.exclude) :
          LET idx == Search(entityData.Mask, f.exclude[k], FALSE)
          IN  ~(idx < maskLen /\ entityData.Mask[idx + 1] = f.exclude[k])

\* Filter.isCompatibleWithout
isCompatibleWithout(f, entityData, typeID) ==
    LET maskLen == Len(entityData.Mask) IN
    /\ \A k \in 1..Len(f.include) :
          /\ f.include[k] # typeID
          /\ LET idx == Search(entityData.Mask, f.include[k], FALSE)
             IN  ~(idx >= maskLen \/ entityData.Mask[idx + 1] # f.include[k])
    /\ \A k \in 1..Len(f.exclude) :
          \/ f.exclude[k] = typeID
          \/ LET idx == Search(entityData.Mask, f.exclude[k], FALSE)
             IN  ~(idx < maskLen /\ entityData.Mask[idx + 1] = f.exclude[k])

\* ------------------------------------------------------------- world.go
\* A world value W is the record of the World fields plus the pending panic:
\* [Entities, filters, recycledEntities, Pools, leakedEntities, fault].

\* A variant of filtersByInclude[t] that lists every filter of the world.
filtersByIncludeAll(fs, t) == [i \in 1..Len(fs) |-> i]

\* NewWorld, the loop over the filters from index i on: the filter is
\* appended to the list of t once for every entry of its constraint list
\* (include or exclude) that equals t. Filters are indices into filters.
RECURSIVE filtersBy(_, _, _, _)
filtersBy(fs, t, byInclude, i) ==
    IF i > Len(fs) THEN << >>
    ELSE LET constraints == IF byInclude THEN fs[i].include ELSE fs[i].exclude
             entries == SelectSeq(constraints, LAMBDA c : c = t)
         IN  [k \in 1..Len(entries) |-> i] \o filtersBy(fs, t, byInclude, i + 1)

\* NewWorld: filtersByInclude[t], in declaration order, a filter once per
\* occurrence of t in its include list.
filtersByInclude(fs, t) == filtersBy(fs, t, TRUE, 1)

\* NewWorld: filtersByExclude[t].
filtersByExclude(fs, t) == filtersBy(fs, t, FALSE, 1)

\* NewWorld with len(pools) = pools: no entity, empty pools, the declared
\* filters. filtersByInclude and filtersByExclude have componentsCount =
\* uint16(len(pools)) entries; indexing them with a type at or beyond that
\* count is a runtime panic.
NewWorld(pools, fs) ==
    [Entities |-> << >>, filters |-> fs, recycledEntities |-> << >>,
     Pools |-> [t \in 1..pools |-> << >>],
     leakedEntities |-> << >>,
     fault |-> IF \E i \in 1..Len(fs) :
                     \E c \in Range(fs[i].include) \cup Range(fs[i].exclude) :
                         c >= pools % 65536
               THEN "index out of range"
               ELSE NoFault]

\* Generated pool: New() appends a default value, Recycle(idx) resets one.
DefaultValue == 0
PoolNew(p) == Append(p, DefaultValue)
\* A variant of Recycle that leaves the stored value in the pool.
RecycleKeepValue(p, idx) == p
Recycle(p, idx) == [p EXCEPT ![idx + 1] = DefaultValue]

\* One of the four loops of UpdateFilters over list, from position k on:
\* viaInclude selects isCompatible / isCompatibleWithout, doAdd selects
\* f.add / f.remove with its DEBUG membership test.
RECURSIVE UpdateLoop(_, _, _, _, _, _, _)
UpdateLoop(W, list, k, e, componentType, viaInclude, doAdd) ==
    IF k > Len(list) \/ W.fault # NoFault THEN W
    ELSE LET fi == list[k]
             f == W.filters[fi]
             entityData == W.Entities[e + 1]
             compatible == IF viaInclude
                           THEN isCompatible(f, entityData)
                           ELSE isCompatibleWithout(f, entityData, componentType)
         IN  IF ~compatible
             THEN UpdateLoop(W, list, k + 1, e, componentType, viaInclude, doAdd)
             ELSE IF DEBUG /\ doAdd /\ e \in DOMAIN f.entitiesMap
             THEN [W EXCEPT !.fault = "entity already in filter"]
             ELSE IF DEBUG /\ ~doAdd /\ e \notin DOMAIN f.entitiesMap
             THEN [W EXCEPT !.fault = "entity not in filter"]
             ELSE LET r == IF doAdd THEN add(f, e) ELSE remove(f, e)
                  IN  UpdateLoop([W EXCEPT !.filters[fi] = r.filter, !.fault = r.fault],
                                 list, k + 1, e, componentType, viaInclude, doAdd)

\* World.UpdateFilters: indexing Entities with an entity that has no record,
\* or filtersByInclude / filtersByExclude (componentsCount entries) with a
\* type at or beyond componentsCount, is a runtime panic.
UpdateFilters(W, e, componentType, isAdd) ==
    IF e \notin 0..(Len(W.Entities) - 1) \/ componentType >= Len(W.Pools) % 65536
    THEN [W EXCEPT !.fault = "index out of range"]
    ELSE LET includeList == filtersByInclude(W.filters, componentType)
             excludeList == filtersByExclude(W.filters, componentType)
         IN  UpdateLoop(UpdateLoop(W, includeList, 1, e, componentType, TRUE, isAdd),
                        excludeList, 1, e, componentType, FALSE, ~isAdd)

\* World.NewEntity: the world after the call and the entity returned.
NewEntity(W) ==
    LET r == Pop(W.recycledEntities)
        entity == IF r.ok THEN r.value ELSE Len(W.Entities)
        W1 == IF r.ok
              THEN [W EXCEPT !.recycledEntities = r.pool,
                             !.Entities[entity + 1].Gen = Int16(-@)]
              ELSE [W EXCEPT !.Entities = Append(@, [Gen |-> 1,
                                                     BitMask |-> NewBitSet(Len(W.Pools) % 65536),
                                                     Mask |-> << >>]),
                             !.Pools = [t \in DOMAIN W.Pools |-> PoolNew(W.Pools[t])]]
    IN  [world |-> IF DEBUG THEN [W1 EXCEPT !.leakedEntities = Append(@, entity)] ELSE W1,
         entity |-> entity]

\* World.DelEntity, the loop body after UpdateFilters: the component is
\* recycled, the mask cut to its first i entries, the bit cleared.
DelEntityTrim(W1, entity, typeID, i) ==
    [W1 EXCEPT !.Pools[typeID + 1] = Recycle(@, entity),
               !.Entities[entity + 1].Mask = SubSeq(@, 1, i),
               !.Entities[entity + 1].BitMask = BitSetUnset(@, typeID)]

\* World.DelEntity, the loop over the mask from Go index i down to 0.
RECURSIVE DelEntityLoop(_, _, _)
DelEntityLoop(W, entity, i) ==
    IF i < 0 \/ W.fault # NoFault THEN W
    ELSE LET typeID == W.Entities[entity + 1].Mask[i + 1]
             W1 == UpdateFilters(W, entity, typeID, FALSE)
         IN  IF W1.fault # NoFault THEN W1
             ELSE DelEntityLoop(DelEntityTrim(W1, entity, typeID, i), entity, i - 1)

\* The worlds in which the loop of World.DelEntity calls UpdateFilters, in
\* the order of the calls.
RECURSIVE DelEntityCalls(_, _, _)
DelEntityCalls(W, entity, i) ==
    IF i < 0 \/ W.fault # NoFault THEN << >>
    ELSE LET typeID == W.Entities[entity + 1].Mask[i + 1]
             W1 == UpdateFilters(W, entity, typeID, FALSE)
         IN  <<W>> \o (IF W1.fault # NoFault THEN << >>
                       ELSE DelEntityCalls(DelEntityTrim(W1, entity, typeID, i),
                                           entity, i - 1))

\* A variant of World.DelEntity that stores -gen without the increment.
DelEntityGenNoIncrement(gen) == Int16(-gen)

\* World.DelEntity, lines 133-137: gen++; if gen == 0 { gen = 1 }; Gen = -gen,
\* all in int16.
DelEntityGen(gen) ==
    LET g1 == Int16(gen + 1)
        g2 == IF g1 = 0 THEN 1 ELSE g1
    IN  Int16(-g2)

\* World.DelEntity
DelEntity(W, entity) ==
    LET gen == W.Entities[entity + 1].Gen
        W1 == DelEntityLoop(W, entity, Len(W.Entities[entity + 1].Mask) - 1)
    IN  IF W1.fault # NoFault THEN W1
        ELSE [W1 EXCEPT !.Entities[entity + 1].Gen = DelEntityGen(gen),
                        !.recycledEntities = Push(@, entity)]

\* World.Destroy: the loop over the records from Go index i on.
RECURSIVE DestroyLoop(_, _)
DestroyLoop(W, i) ==
    IF i >= Len(W.Entities) \/ W.fault # NoFault THEN W
    ELSE DestroyLoop(IF W.Entities[i + 1].Gen > 0 THEN DelEntity(W, i) ELSE W, i + 1)

\* World.Destroy
Destroy(W) == DestroyLoop(W, 0)

\* World.checkLeakedEntities: the result and the world it leaves.
checkLeakedEntities(W) ==
    IF Len(W.leakedEntities) > 0
    THEN IF \E k \in 1..Len(W.leakedEntities) :
               LET e == W.leakedEntities[k] IN
               W.Entities[e + 1].Gen > 0 /\ Len(W.Entities[e + 1].Mask) = 0
         THEN [world |-> W, result |-> TRUE]
         ELSE [world |-> [W EXCEPT !.leakedEntities = << >>], result |-> FALSE]
    ELSE [world |-> W, result |-> FALSE]

\* A variant of World.checkLeakedFilters that never reports a locked filter.
checkLeakedFiltersNever(W) == FALSE

\* World.checkLeakedFilters
checkLeakedFilters(W) == \E i \in 1..Len(W.filters) : W.filters[i].lockCount > 0

\* The DEBUG block that Systems.Init / Run / Destroy execute after every
\* system callback, for the one world registered with the container.
SystemsCheck(W) ==
    IF ~DEBUG THEN W
    ELSE LET r == checkLeakedEntities(W) IN
         IF r.result
         THEN [r.world EXCEPT !.fault = "entity leak detected"]
         ELSE IF checkLeakedFilters(r.world)
         THEN [r.world EXCEPT !.fault = "filter invalid lock/unlock detected"]
         ELSE r.world

\* ---------------------------------------------------------------- system.go
\* The SystemType flags a system can request.
SystemTypes == {"PreInit", "Init", "Run", "Destroy", "PostDestroy"}

\* NewSystems: no system registered. types records the flags of the systems
\* in the order of the Add calls (system k is the k-th system added), log
\* the callbacks made so far, runs the number of Run() calls that returned.
\* The position of the container call that is running, or ran last: call is
\* its name, running tells that one of its callbacks has not returned yet,
\* loop is the number of the running loop statement, list the slice that
\* loop ranges over (Go evaluates the range expression once, when the loop
\* starts) and k the position in it of the system whose callback runs.
\* History: mark is the length of the log and registered the Add history
\* when the call started.
NewSystems ==
    [types |-> << >>,
     preInitSystems |-> << >>, initSystems |-> << >>, runSystems |-> << >>,
     destroySystems |-> << >>, postDestroySystems |-> << >>,
     log |-> << >>, phase |-> "setup", runs |-> 0,
     call |-> "none", running |-> FALSE, loop |-> 0, list |-> << >>, k |-> 0,
     mark |-> 0, registered |-> << >>]

\* The flags in the order Systems.Add tests them, the panic Add raises for
\* a flag whose interface the system does not implement (the DEBUG test, or
\* the failing type assertion without it), and the slice of a flag with
\* the system appended.
AddOrder == <<"PreInit", "Init", "Run", "Destroy", "PostDestroy">>
NotImplemented(flag) ==
    IF ~DEBUG THEN "interface conversion"
    ELSE CASE flag = "PreInit" ->
                "system requested PreInitSystemType but not implemented \"PreInitSystem\""
           [] flag = "Init" ->
                "system requested InitSystemType but not implemented \"InitSystem\""
           [] flag = "Run" ->
                "system requested RunSystemType but not implemented \"RunSystem\""
           [] flag = "Destroy" ->
                "system requested DestroySystemType but not implemented \"DestroySystem\""
           [] flag = "PostDestroy" ->
                "system requested PostDestroySystemType but not implemented \"PostDestroySystem\""
AddTo(S, flag, system) ==
    CASE flag = "PreInit" -> [S EXCEPT !.preInitSystems = Append(@, system)]
      [] flag = "Init" -> [S EXCEPT !.initSystems = Append(@, system)]
      [] flag = "Run" -> [S EXCEPT !.runSystems = Append(@, system)]
      [] flag = "Destroy" -> [S EXCEPT !.destroySystems = Append(@, system)]
      [] flag = "PostDestroy" -> [S EXCEPT !.postDestroySystems = Append(@, system)]

\* Systems.Add from the test of the i-th flag on: a requested flag whose
\* interface is implemented appends the system to the slice of the flag, one
\* that is not implemented panics, with the earlier slices already appended
\* to. A call that returns is recorded in the Add history.
RECURSIVE AddFrom(_, _, _, _, _)
AddFrom(S, system, types, implemented, i) ==
    IF i > Len(AddOrder)
    THEN [sys |-> [S EXCEPT !.types = Append(@, types)], fault |-> NoFault]
    ELSE IF AddOrder[i] \notin types
    THEN AddFrom(S, system, types, implemented, i + 1)
    ELSE IF AddOrder[i] \notin implemented
    THEN [sys |-> S, fault |-> NotImplemented(AddOrder[i])]
    ELSE AddFrom(AddTo(S, AddOrder[i], system), system, types, implemented, i + 1)

\* Systems.Add of a system that requests the flags types and implements the
\* interfaces of the flags implemented: the container after the call and
\* the panic raised, if any.
Add(S, types, implemented) ==
    IF DEBUG /\ types = {}
    THEN [sys |-> S, fault |-> "system doesnt requested any SystemType support"]
    ELSE AddFrom(S, Len(S.types) + 1, types, implemented, 1)

\* The loop statements of Systems.Init / Run / Destroy, in the order of the
\* code, each named by the callback it makes.
SystemsLoops(call) ==
    CASE call = "Init" -> <<"PreInit", "Init">>
      [] call = "Run" -> <<"Run">>
      [] call = "Destroy" -> <<"Destroy", "PostDestroy">>

\* The slice the loop of a callback ranges over.
SystemsOf(S, name) ==
    CASE name = "PreInit" -> S.preInitSystems
      [] name = "Init" -> S.initSystems
      [] name = "Run" -> S.runSystems
      [] name = "Destroy" -> S.destroySystems
      [] name = "PostDestroy" -> S.postDestroySystems

\* Systems.Init / Run / Destroy from position k of the running loop up to
\* the next callback, which is called (and logged), or to the end of the
\* call: a loop that is over is followed by the next loop statement, whose
\* range expression is read at that moment.
RECURSIVE SystemsResume(_)
SystemsResume(S) ==
    IF S.k <= Len(S.list)
    THEN [S EXCEPT !.log = Append(@, [phase |-> SystemsLoops(S.call)[S.loop],
                                      system |-> S.list[S.k]])]
    ELSE IF S.loop < Len(SystemsLoops(S.call))
    THEN SystemsResume([S EXCEPT !.loop = @ + 1,
                                 !.list = SystemsOf(S, SystemsLoops(S.call)[S.loop + 1]),
                                 !.k = 1])
    ELSE [S EXCEPT !.running = FALSE, !.loop = 0, !.list = << >>, !.k = 0,
                   !.phase = IF S.call = "Destroy" THEN "destroyed" ELSE "running",
                   !.runs = IF S.call = "Run" THEN @ + 1 ELSE @]

\* Systems.Init / Run / Destroy from the call up to its first callback.
SystemsBegin(S, call) ==
    SystemsResume([S EXCEPT !.call = call, !.running = TRUE, !.loop = 1,
                            !.list = SystemsOf(S, SystemsLoops(call)[1]), !.k = 1,
                            !.mark = Len(S.log), !.registered = S.types])

\* Systems.Init / Run / Destroy from the return of a callback on: the DEBUG
\* checks run on the world; a panic ends the call, otherwise the loop goes
\* on with the next system. SW is the container with the world.
SystemsReturn(SW) ==
    LET W2 == SystemsCheck(SW.world) IN
    [sys |-> IF W2.fault # NoFault THEN SW.sys
             ELSE SystemsResume([SW.sys EXCEPT !.k = @ + 1]),
     world |-> W2]

\* A variant of World.PackEntity that does not record the generation.
PackEntityNoGen(W, entity) == [gen |-> 0, idx |-> entity]

\* A variant of World.UnpackEntity that returns the index also on failure.
UnpackEntityKeepIdx(W, packedEntity) ==
    [entity |-> packedEntity.idx,
     ok |-> packedEntity.gen = W.Entities[packedEntity.idx + 1].Gen]

\* World.PackEntity
PackEntity(W, entity) == [gen |-> W.Entities[entity + 1].Gen, idx |-> entity]

\* World.UnpackEntity
UnpackEntity(W, packedEntity) ==
    IF packedEntity.gen # W.Entities[packedEntity.idx + 1].Gen
    THEN [entity |-> 0, ok |-> FALSE]
    ELSE [entity |-> packedEntity.idx, ok |-> TRUE]

\* ------------------------------------------- generated Set<T> / Del<T>
\* The pointer &(*pool)[entity] into the pool of component type t, the value
\* it points to, and a write of the caller through it.
ComponentRef(entity, t) == [pool |-> t, idx |-> entity]
Deref(W, ref) == W.Pools[ref.pool + 1][ref.idx + 1]
Write(W, ref, v) == [W EXCEPT !.Pools[ref.pool + 1][ref.idx + 1] = v]

\* The values a caller writes into a component (the default value is 0).
Values == {1}

\* A variant of the insertion of Set{{$c.Name}} that appends the type at the
\* end of the mask instead of at the position sort.Search returns.
SetInsertAtEnd(W, entity, t) ==
    [W EXCEPT !.Entities[entity + 1].BitMask = BitSetSet(@, t),
              !.Entities[entity + 1].Mask = Append(@, t)]

\* A variant of Set{{$c.Name}} that calls UpdateFilters before the bit is set
\* and the type inserted.
SetInsertLate(W, entity, t) == W

\* Set{{$c.Name}}, lines 359-363: the bit is set and the type inserted into
\* the sorted mask; the world in which UpdateFilters is then called.
SetInsert(W, entity, t) ==
    LET entityData == W.Entities[entity + 1]
        maskIdx == Search(entityData.Mask, t, TRUE)
        Mask1 == SubSeq(entityData.Mask, 1, maskIdx) \o <<t>>
                 \o SubSeq(entityData.Mask, maskIdx + 1, Len(entityData.Mask))
    IN  [W EXCEPT !.Entities[entity + 1].BitMask = BitSetSet(@, t),
                  !.Entities[entity + 1].Mask = Mask1]

\* A variant of Set{{$c.Name}} without the BitMask test.
SetAlways(W, entity, t) == UpdateFilters(SetInsert(W, entity, t), entity, t, TRUE)

\* A variant of Del{{$c.Name}} that leaves the bit of the type set.
DelKeepBit(W, entity, t) ==
    LET entityData == W.Entities[entity + 1] IN
    IF BitSetGet(entityData.BitMask, t)
    THEN IF Len(entityData.Mask) > 1
         THEN LET W1 == UpdateFilters(W, entity, t, FALSE) IN
              IF W1.fault # NoFault THEN W1
              ELSE LET maskLen == Len(entityData.Mask)
                       maskIdx == Search(entityData.Mask, t, FALSE)
                       Mask1 == SubSeq(entityData.Mask, 1, maskIdx)
                                \o SubSeq(entityData.Mask, maskIdx + 2, maskLen)
                   IN  [W1 EXCEPT !.Pools[t + 1] = Recycle(@, entity),
                                  !.Entities[entity + 1].Mask = Mask1]
         ELSE DelEntity(W, entity)
    ELSE W

\* A variant of Del{{$c.Name}} without the BitMask test.
DelUnchecked(W, entity, t) ==
    IF Len(W.Entities[entity + 1].Mask) > 1
    THEN [W EXCEPT !.Entities[entity + 1].BitMask = BitSetUnset(@, t)]
    ELSE DelEntity(W, entity)

\* Set{{$c.Name}} for the component type with index t.
Set(W, entity, t) ==
    IF ~BitSetGet(W.Entities[entity + 1].BitMask, t)
    THEN UpdateFilters(SetInsert(W, entity, t), entity, t, TRUE)
    ELSE W

\* Set{{$c.Name}}: the pointer returned, &(*pool)[entity].
SetResult(W, entity, t) == ComponentRef(entity, t)

\* The nil pointer.
Nil == [pool |-> -1, idx |-> -1]

\* A variant of Get{{$c.Name}} without the BitMask test.
GetUntested(W, entity, t) == ComponentRef(entity, t)

\* Get{{$c.Name}}: nil, or the pointer &(*pool)[entity].
Get(W, entity, t) ==
    IF ~BitSetGet(W.Entities[entity + 1].BitMask, t)
    THEN Nil
    ELSE ComponentRef(entity, t)

\* A variant of Del{{$c.Name}} that fills the place of the removed type with
\* the last entry of the mask.
DelSwapLast(W, entity, t) ==
    LET entityData == W.Entities[entity + 1] IN
    IF BitSetGet(entityData.BitMask, t)
    THEN IF Len(entityData.Mask) > 1
         THEN LET W1 == UpdateFilters(W, entity, t, FALSE) IN
              IF W1.fault # NoFault THEN W1
              ELSE LET maskLen == Len(entityData.Mask)
                       maskIdx == Search(entityData.Mask, t, FALSE)
                       Mask1 == SubSeq([entityData.Mask EXCEPT
                                           ![maskIdx + 1] = entityData.Mask[maskLen]],
                                       1, maskLen - 1)
                   IN  [W1 EXCEPT !.Pools[t + 1] = Recycle(@, entity),
                                  !.Entities[entity + 1].Mask = Mask1,
                                  !.Entities[entity + 1].BitMask = BitSetUnset(@, t)]
         ELSE DelEntity(W, entity)
    ELSE W

\* Del{{$c.Name}} for the component type with index t.
Del(W, entity, t) ==
    LET entityData == W.Entities[entity + 1] IN
    IF BitSetGet(entityData.BitMask, t)
    THEN IF Len(entityData.Mask) > 1
         THEN LET W1 == UpdateFilters(W, entity, t, FALSE) IN
              IF W1.fault # NoFault THEN W1
              ELSE LET maskLen == Len(entityData.Mask)
                       maskIdx == Search(entityData.Mask, t, FALSE)
                       Mask1 == SubSeq(entityData.Mask, 1, maskIdx)
                                \o SubSeq(entityData.Mask, maskIdx + 2, maskLen)
                   IN  [W1 EXCEPT !.Pools[t + 1] = Recycle(@, entity),
                                  !.Entities[entity + 1].Mask = Mask1,
                                  !.Entities[entity + 1].BitMask = BitSetUnset(@, t)]
         ELSE DelEntity(W, entity)
    ELSE W

\* The worlds in which Set{{$c.Name}}, Del{{$c.Name}} and DelEntity call
\* UpdateFilters, in the order of the calls.
SetCalls(W, entity, t) ==
    IF ~BitSetGet(W.Entities[entity + 1].BitMask, t)
    THEN <<SetInsert(W, entity, t)>>
    ELSE << >>
DelCalls(W, entity, t) ==
    IF BitSetGet(W.Entities[entity + 1].BitMask, t)
    THEN IF Len(W.Entities[entity + 1].Mask) > 1
         THEN <<W>>
         ELSE DelEntityCalls(W, entity, Len(W.Entities[entity + 1].Mask) - 1)
    ELSE << >>

\* ------------------------------------------------------- declared worlds
\* The filters of the world scheme of README.md:222-237 over the components
\* C1 (0) and C2 (1): in-parameters are include types, results exclude types.
WithC1 == NewFilter(<<0>>, << >>)
WithC1C2 == NewFilter(<<0, 1>>, << >>)
WithC1WithoutC2 == NewFilter(<<0>>, <<1>>)
\* A filter method with a result and no parameter, which
\* scanFilterConstraints accepts: exclude C2, include nothing.
WithoutC2 == NewFilter(<< >>, <<1>>)

\* The worlds of the structural specification, and the smaller worlds of
\* the specifications with locks and with packed entities.
Worlds == { <<WithC1C2, WithC1WithoutC2>>, <<WithC1, WithC1C2, WithoutC2>> }
LockWorlds == { <<WithC1WithoutC2>>, <<WithoutC2>> }
PackWorlds == { <<WithC1WithoutC2>> }

Types == 0..(componentsCount - 1)

\* ------------------------------------------------------------------ state
VARIABLES
    Entities,           \* World.Entities
    filters,            \* World.filters
    recycledEntities,   \* World.recycledEntities
    Pools,              \* World.Pools
    leakedEntities,     \* World.leakedEntities
    fault,              \* message of the panic that ended the run, or NoFault
    eager,              \* history: the filters of the same run with no lock ever taken
    eagerFault,         \* history: the panic of that run, or NoFault
    packed,             \* the PackedEntity the caller keeps, or NoPacked
    packedStatus,       \* history: what happened to its slot since PackEntity
    unpackResult,       \* result of the last UnpackEntity call
    lastOp,             \* the last call made
    newCount,           \* number of NewEntity() calls since the initial state
    systems,            \* the Systems container and the log of the callbacks it made
    iter,               \* the FilterIter of the running loop and what it visited
    living              \* history: the entities NewEntity returned, not destroyed since

vars == <<Entities, filters, recycledEntities, Pools, leakedEntities, fault,
          eager, eagerFault, packed, packedStatus, unpackResult, lastOp, newCount, systems,
          iter, living>>

NoPacked == [gen |-> 0, idx |-> -1]
NoResult == [entity |-> -1, ok |-> FALSE]
\* No loop over a filter is running.
NoIter == [active |-> FALSE, filter |-> 0, len |-> 0, idx |-> -1,
           visited |-> << >>, entities |-> << >>, lockCount |-> 0]
Op(name, n) == [op |-> name, n |-> n]

\* The world value of the current state, and of the run without locks.
World ==
    [Entities |-> Entities, filters |-> filters, recycledEntities |-> recycledEntities,
     Pools |-> Pools, leakedEntities |-> leakedEntities, fault |-> fault]

EagerWorld == [World EXCEPT !.filters = eager, !.fault = eagerFault]

\* An entity is alive when it was returned by NewEntity and not destroyed
\* since.
Alive(e) == e \in living
AliveEntities == {e \in 0..(Len(Entities) - 1) : Alive(e)}

\* The alive entities after a call that leaves the world W2: NewEntity
\* returns the index it pops off recycledEntities or the index of the
\* record it appends, DelEntity pushes the index of the entity it destroys.
Occurrences(pool, e) == Cardinality({i \in 1..Len(pool) : pool[i] = e})
LivingAfter(W2) ==
    LET pushed == {e \in 0..(Len(W2.Entities) - 1) :
                      Occurrences(W2.recycledEntities, e) > Occurrences(recycledEntities, e)}
        popped == {e \in 0..(Len(W2.Entities) - 1) :
                      Occurrences(W2.recycledEntities, e) < Occurrences(recycledEntities, e)}
        appended == Len(Entities)..(Len(W2.Entities) - 1)
    IN  (living \ pushed) \cup popped \cup appended

\* What the slot of the kept PackedEntity went through, given the world W2
\* the call leaves: a live packed entity is destroyed when the call pushes
\* its index (DelEntity), the slot of a destroyed one is reused when the
\* call pops its index (NewEntity).
StatusAfter(W2) ==
    LET before == Occurrences(recycledEntities, packed.idx)
        after == Occurrences(W2.recycledEntities, packed.idx)
    IN  IF packed = NoPacked THEN "none"
        ELSE IF packedStatus = "live" /\ after > before
        THEN "destroyed"
        ELSE IF packedStatus = "destroyed" /\ after < before
        THEN "reused"
        ELSE packedStatus

\* The state after a structural call: W2 is the world it leaves, E2 the
\* world the same call leaves in the run without locks.
Apply(W2, E2, op) ==
    /\ Entities' = W2.Entities
    /\ filters' = W2.filters
    /\ recycledEntities' = W2.recycledEntities
    /\ Pools' = W2.Pools
    /\ leakedEntities' = W2.leakedEntities
    /\ fault' = W2.fault
    /\ eager' = E2.filters
    /\ eagerFault' = E2.fault
    /\ packedStatus' = StatusAfter(W2)
    /\ newCount' = newCount + (IF op.op = "NewEntity" THEN 1 ELSE 0)
    /\ lastOp' = op
    /\ living' = LivingAfter(W2)
    /\ UNCHANGED <<packed, unpackResult, systems, iter>>

\* The state after NewWorld with len(pools) = pools and the filters fs.
InitWorldOf(pools, fs) ==
    /\ filters = fs
    /\ eager = fs
    /\ Entities = NewWorld(pools, fs).Entities
    /\ recycledEntities = NewWorld(pools, fs).recycledEntities
    /\ Pools = NewWorld(pools, fs).Pools
    /\ leakedEntities = NewWorld(pools, fs).leakedEntities
    /\ fault = NewWorld(pools, fs).fault
    /\ eagerFault = NoFault
    /\ packed = NoPacked
    /\ packedStatus = "none"
    /\ unpackResult = NoResult
    /\ lastOp = Op("NewWorld", 0)
    /\ newCount = 0
    /\ systems = NewSystems
    /\ iter = NoIter
    /\ living = {}

\* The state after NewWorld(fs) of the generated world.
InitWorld(fs) == InitWorldOf(componentsCount, fs)

Init == \E fs \in Worlds : InitWorld(fs)
InitLock == \E fs \in LockWorlds : InitWorld(fs)
InitPack == \E fs \in PackWorlds : InitWorld(fs)

\* ---------------------------------------------------------------- actions
\* w.NewEntity()
CallNewEntity ==
    /\ fault = NoFault
    /\ newCount < MaxCreates
    /\ Apply(NewEntity(World).world, NewEntity(EagerWorld).world,
             Op("NewEntity", 0))

\* w.Set<t>(e) on an alive entity.
CallSet(e, t) ==
    /\ fault = NoFault
    /\ Alive(e)
    /\ Apply(Set(World, e, t), Set(EagerWorld, e, t), Op("Set", 0))

\* w.Del<t>(e) on an alive entity.
CallDel(e, t) ==
    /\ fault = NoFault
    /\ Alive(e)
    /\ Apply(Del(World, e, t), Del(EagerWorld, e, t), Op("Del", 0))

\* w.DelEntity(e) on an alive entity.
CallDelEntity(e) ==
    /\ fault = NoFault
    /\ Alive(e)
    /\ Apply(DelEntity(World, e), DelEntity(EagerWorld, e), Op("DelEntity", 0))

\* w.Destroy()
CallDestroy ==
    /\ fault = NoFault
    /\ lastOp.op # "Destroy"
    /\ Apply(Destroy(World), Destroy(EagerWorld), Op("Destroy", 0))

\* *w.Get<t>(e) = v: the caller writes v into a component e holds.
CallWrite(e, t, v) ==
    /\ fault = NoFault
    /\ Alive(e)
    /\ BitSetGet(Entities[e + 1].BitMask, t)
    /\ Deref(World, ComponentRef(e, t)) # v
    /\ Pools' = Write(World, ComponentRef(e, t), v).Pools
    /\ lastOp' = Op("Write", 0)
    /\ UNCHANGED <<Entities, filters, recycledEntities, leakedEntities, fault,
                   eager, eagerFault, packed, packedStatus, unpackResult, newCount, systems, iter, living>>

\* c = w.Get<t>(e) on an alive entity; the caller tests c against nil and
\* reads the value behind it (recorded in lastOp, -1 for nil).
CallGet(e, t) ==
    /\ fault = NoFault
    /\ Alive(e)
    /\ lastOp' = Op("Get", IF Get(World, e, t) = Nil THEN -1
                           ELSE Deref(World, Get(World, e, t)))
    /\ UNCHANGED <<Entities, filters, recycledEntities, Pools, leakedEntities, fault,
                   eager, eagerFault, packed, packedStatus, unpackResult, newCount, systems, iter, living>>

\* A system callback returns to the Systems container, which runs its DEBUG
\* checks on the world.
CallSystemCheck ==
    /\ fault = NoFault
    /\ lastOp.op # "Check"
    /\ Apply(SystemsCheck(World), SystemsCheck(EagerWorld), Op("Check", 0))

\* w.Filter(f).EntitiesWithLock()
CallEntitiesWithLock(f) ==
    /\ fault = NoFault
    /\ filters[f].lockCount < MaxLock
    /\ filters' = [filters EXCEPT ![f] = EntitiesWithLock(@)]
    /\ lastOp' = Op("EntitiesWithLock", 0)
    /\ UNCHANGED <<Entities, recycledEntities, Pools, leakedEntities, fault,
                   eager, eagerFault, packed, packedStatus, unpackResult, newCount, systems, iter, living>>

\* w.Filter(f).Unlock(), balanced with an earlier EntitiesWithLock().
CallUnlock(f) ==
    /\ fault = NoFault
    /\ filters[f].lockCount > 0
    /\ filters' = [filters EXCEPT ![f] = Unlock(@).filter]
    /\ fault' = Unlock(filters[f]).fault
    /\ lastOp' = Op("Unlock", IF filters[f].lockCount = 1 THEN Len(filters[f].lockedChanges) ELSE 0)
    /\ UNCHANGED <<Entities, recycledEntities, Pools, leakedEntities,
                   eager, eagerFault, packed, packedStatus, unpackResult, newCount, systems, iter, living>>

\* p = w.PackEntity(e) on an alive entity; the caller keeps p.
CallPackEntity(e) ==
    /\ fault = NoFault
    /\ Alive(e)
    /\ packed' = PackEntity(World, e)
    /\ packedStatus' = "live"
    /\ lastOp' = Op("PackEntity", 0)
    /\ UNCHANGED <<Entities, filters, recycledEntities, Pools, leakedEntities, fault,
                   eager, eagerFault, unpackResult, newCount, systems, iter, living>>

\* w.UnpackEntity(p) of the kept PackedEntity.
CallUnpackEntity ==
    /\ fault = NoFault
    /\ packed # NoPacked
    /\ unpackResult' = UnpackEntity(World, packed)
    /\ lastOp' = Op("UnpackEntity", 0)
    /\ UNCHANGED <<Entities, filters, recycledEntities, Pools, leakedEntities, fault,
                   eager, eagerFault, packed, packedStatus, newCount, systems, iter, living>>

\* NewEntity / Set<T> / Del<T> / DelEntity calls on alive entities, and
\* Destroy.
Next ==
    \/ CallNewEntity
    \/ \E e \in 0..(Len(Entities) - 1), t \in Types : CallSet(e, t)
    \/ \E e \in 0..(Len(Entities) - 1), t \in Types : CallDel(e, t)
    \/ \E e \in 0..(Len(Entities) - 1) : CallDelEntity(e)
    \/ CallDestroy

Spec == Init /\ [][Next]_vars

\* The same calls interleaved with balanced EntitiesWithLock / Unlock.
NextLock ==
    \/ CallNewEntity
    \/ \E e \in 0..(Len(Entities) - 1), t \in Types : CallSet(e, t)
    \/ \E e \in 0..(Len(Entities) - 1), t \in Types : CallDel(e, t)
    \/ \E e \in 0..(Len(Entities) - 1) : CallDelEntity(e)
    \/ \E f \in 1..Len(filters) : CallEntitiesWithLock(f)
    \/ \E f \in 1..Len(filters) : CallUnlock(f)

SpecLock == InitLock /\ [][NextLock]_vars

\* The same calls interleaved with PackEntity / UnpackEntity.
NextPack ==
    \/ CallNewEntity
    \/ \E e \in 0..(Len(Entities) - 1), t \in Types : CallSet(e, t)
    \/ \E e \in 0..(Len(Entities) - 1), t \in Types : CallDel(e, t)
    \/ \E e \in 0..(Len(Entities) - 1) : CallDelEntity(e)
    \/ \E e \in 0..(Len(Entities) - 1) : CallPackEntity(e)
    \/ CallUnpackEntity

SpecPack == InitPack /\ [][NextPack]_vars

\* A world whose only slot has already been created and destroyed many
\* times: the generation a free slot stores after one more NewEntity()
\* (reuse) and DelEntity(), iterated n times by halving.
FreeGenNext(g) == DelEntityGen(Int16(-g))
RECURSIVE FreeGenIter(_, _)
FreeGenIter(g, n) ==
    IF n = 0 THEN g
    ELSE IF n = 1 THEN FreeGenNext(g)
    ELSE LET half == FreeGenIter(g, n \div 2)
         IN  \* the test makes half a value before the second half starts
             IF half \in Int THEN FreeGenIter(half, n - n \div 2) ELSE half

\* The generation of a slot created once and destroyed k >= 1 times.
FreeGenAfter(k) == FreeGenIter(DelEntityGen(1), k - 1)

\* Numbers of earlier NewEntity() / DelEntity() cycles of the slot.
PriorCycles == {32766, 65534}

\* The state after NewWorld(fs) and k cycles e = NewEntity(); DelEntity(e),
\* the last DelEntity(e) made after a leak check of the Systems container
\* (checkLeakedEntities, world.go:209-219) that found e alive and emptied
\* leakedEntities.
InitAged(fs, k) ==
    /\ filters = fs
    /\ eager = fs
    /\ Entities = << [Gen |-> FreeGenAfter(k),
                      BitMask |-> NewBitSet(componentsCount),
                      Mask |-> << >>] >>
    /\ recycledEntities = <<0>>
    /\ Pools = [t \in 1..componentsCount |-> PoolNew(<< >>)]
    /\ leakedEntities = << >>
    /\ fault = NoFault
    /\ eagerFault = NoFault
    /\ packed = NoPacked
    /\ packedStatus = "none"
    /\ unpackResult = NoResult
    /\ lastOp = Op("DelEntity", 0)
    /\ newCount = 0
    /\ systems = NewSystems
    /\ iter = NoIter
    /\ living = {}

InitWrap == \E fs \in PackWorlds, k \in PriorCycles : InitAged(fs, k)

\* The calls of NextPack, Destroy, and the checks of the Systems container.
NextWrap ==
    \/ NextPack
    \/ CallDestroy
    \/ CallSystemCheck

SpecWrap == InitWrap /\ [][NextWrap]_vars

\* ------------------------------------------------------ systems container
\* System callbacks that create entities, attach components, destroy
\* entities and iterate a filter under its lock on a world with one filter,
\* and the checks of the Systems container between callbacks.
NextSystems ==
    \/ CallNewEntity
    \/ \E e \in 0..(Len(Entities) - 1), t \in Types : CallSet(e, t)
    \/ \E e \in 0..(Len(Entities) - 1) : CallDelEntity(e)
    \/ \E f \in 1..Len(filters) : CallEntitiesWithLock(f)
    \/ \E f \in 1..Len(filters) : CallUnlock(f)
    \/ CallSystemCheck

SpecSystems == InitPack /\ [][NextSystems]_vars

\* The life of a Systems container over a world: Add calls, Init(), Run()
\* calls, Destroy(). A container call runs up to the callback of a system;
\* the callback creates entities, attaches components, locks and unlocks
\* the filter and adds systems, then returns to the container.
SystemsStep(S) ==
    /\ systems' = S
    /\ UNCHANGED <<Entities, filters, recycledEntities, Pools, leakedEntities, fault,
                   eager, eagerFault, packed, packedStatus, unpackResult, newCount, iter, living>>

\* systems.Add(system) of a system requesting the flags types and
\* implementing the interfaces of the flags implemented, at any time:
\* before Init(), between the container calls or from a callback. The run
\* without locks makes the same call.
CallAdd(types, implemented) ==
    /\ fault = NoFault
    /\ Len(systems.types) < MaxSystems
    /\ systems' = Add(systems, types, implemented).sys
    /\ fault' = Add(systems, types, implemented).fault
    /\ eagerFault' = IF eagerFault # NoFault THEN eagerFault
                     ELSE Add(systems, types, implemented).fault
    /\ lastOp' = Op("Add", 0)
    /\ UNCHANGED <<Entities, filters, recycledEntities, Pools, leakedEntities,
                   eager, packed, packedStatus, unpackResult, newCount, iter, living>>

\* systems.Init(), up to its first callback
CallSystemsInit ==
    /\ fault = NoFault
    /\ systems.phase = "setup"
    /\ ~systems.running
    /\ SystemsStep(SystemsBegin(systems, "Init"))
    /\ lastOp' = Op("Init", 0)

\* systems.Run(), up to its first callback
CallSystemsRun ==
    /\ fault = NoFault
    /\ systems.phase = "running"
    /\ ~systems.running
    /\ systems.runs < MaxRuns
    /\ SystemsStep(SystemsBegin(systems, "Run"))
    /\ lastOp' = Op("Run", 0)

\* systems.Destroy(), up to its first callback
CallSystemsDestroy ==
    /\ fault = NoFault
    /\ systems.phase = "running"
    /\ ~systems.running
    /\ SystemsStep(SystemsBegin(systems, "Destroy"))
    /\ lastOp' = Op("SystemsDestroy", 0)

\* The running callback returns: the container checks the world and goes
\* on to the next callback or to the end of the call.
CallbackReturn ==
    /\ fault = NoFault
    /\ systems.running
    /\ LET SW == SystemsReturn([sys |-> systems, world |-> World])
           EW == SystemsReturn([sys |-> systems, world |-> EagerWorld]) IN
       /\ systems' = SW.sys
       /\ fault' = SW.world.fault
       /\ leakedEntities' = SW.world.leakedEntities
       /\ eagerFault' = IF eagerFault # NoFault THEN eagerFault ELSE EW.world.fault
    /\ lastOp' = Op("Return", 0)
    /\ UNCHANGED <<Entities, filters, recycledEntities, Pools, eager,
                   packed, packedStatus, unpackResult, newCount, iter, living>>

\* The flag sets of the systems added: none (refused in DEBUG), the flags
\* of Init() alone and together, of Run(), of Destroy(), and every flag.
SystemFlagSets ==
    { {}, {"PreInit"}, {"Init"}, {"PreInit", "Init"}, {"Run"},
      {"Destroy", "PostDestroy"}, SystemTypes }

\* The interfaces a system handed to Add implements: those of all the
\* flags it requests, or those of all but one.
Implementations(types) == {types} \cup {types \ {flag} : flag \in types}

\* The calls on the container, and the calls a running callback makes: it
\* adds a system, creates an entity, attaches the first component to an
\* entity that has none. (The callbacks of SpecSystems also lock filters.)
NextOrder ==
    \/ \E types \in SystemFlagSets : \E implemented \in Implementations(types) :
          CallAdd(types, implemented)
    \/ CallSystemsInit
    \/ CallSystemsRun
    \/ CallSystemsDestroy
    \/ systems.running /\ CallNewEntity
    \/ systems.running /\ \E e \in 0..(Len(Entities) - 1) :
                             Entities[e + 1].Mask = << >> /\ CallSet(e, 0)
    \/ CallbackReturn

SpecOrder == InitPack /\ [][NextOrder]_vars

\* ------------------------------------------------------- component values
\* The structural calls on a world with the single filter WithC1WithoutC2,
\* and writes into the components the entities hold.
NextData ==
    \/ CallNewEntity
    \/ \E e \in 0..(Len(Entities) - 1), t \in Types : CallSet(e, t)
    \/ \E e \in 0..(Len(Entities) - 1), t \in Types : CallDel(e, t)
    \/ \E e \in 0..(Len(Entities) - 1) : CallDelEntity(e)
    \/ \E e \in 0..(Len(Entities) - 1), t \in Types, v \in Values \cup {DefaultValue} :
          CallWrite(e, t, v)
    \/ \E e \in 0..(Len(Entities) - 1), t \in Types : CallGet(e, t)

SpecData == InitPack /\ [][NextData]_vars

\* ------------------------------------------------- longer runs, one filter
\* w.NewEntity(), up to MaxEntities calls in a run.
CallNewEntityAgain ==
    /\ fault = NoFault
    /\ newCount < MaxEntities
    /\ Apply(NewEntity(World).world, NewEntity(EagerWorld).world,
             Op("NewEntity", 0))

\* The structural calls on a world with the single filter WithC1WithoutC2,
\* with enough NewEntity() calls to reuse a slot next to two other entities.
NextReuse ==
    \/ CallNewEntityAgain
    \/ \E e \in 0..(Len(Entities) - 1), t \in Types : CallSet(e, t)
    \/ \E e \in 0..(Len(Entities) - 1), t \in Types : CallDel(e, t)
    \/ \E e \in 0..(Len(Entities) - 1) : CallDelEntity(e)

SpecReuse == InitPack /\ [][NextReuse]_vars

\* ------------------------------------------- calls outside the contract
\* The world of the runs with calls outside the contract.
MisuseWorlds == { <<WithC1>> }
InitMisuse == \E fs \in MisuseWorlds : InitWorld(fs)

\* w.DelEntity(e) on an entity that is already dead: its slot is free.
CallDelEntityDead(e) ==
    /\ fault = NoFault
    /\ e \in Range(recycledEntities)
    /\ Apply(DelEntity(World, e), DelEntity(EagerWorld, e), Op("DelEntityDead", 0))

\* w.Filter(f).Unlock() with no EntitiesWithLock() left to balance.
CallUnlockUnbalanced(f) ==
    /\ fault = NoFault
    /\ filters[f].lockCount = 0
    /\ filters' = [filters EXCEPT ![f] = Unlock(@).filter]
    /\ fault' = Unlock(filters[f]).fault
    /\ lastOp' = Op("UnlockUnbalanced", 0)
    /\ UNCHANGED <<Entities, recycledEntities, Pools, leakedEntities,
                   eager, eagerFault, packed, packedStatus, unpackResult, newCount, systems, iter, living>>

\* The calls of NextLock, followed up to the first call outside the contract.
NextMisuse ==
    \/ lastOp.op # "DelEntityDead" /\ NextLock
    \/ lastOp.op # "DelEntityDead" /\ \E e \in 0..(Len(Entities) - 1) : CallDelEntityDead(e)
    \/ \E f \in 1..Len(filters) : CallUnlockUnbalanced(f)

SpecMisuse == InitMisuse /\ [][NextMisuse]_vars

\* Worlds in which a filter leaves one of the component types unmentioned,
\* with the calls that attach and detach components under locks that are
\* not nested.
FrameWorlds == { <<WithC1>>, <<WithC1C2, WithoutC2>> }
InitFrame == \E fs \in FrameWorlds : InitWorld(fs)

NextFrame ==
    \/ CallNewEntity
    \/ \E e \in 0..(Len(Entities) - 1), t \in Types : CallSet(e, t)
    \/ \E e \in 0..(Len(Entities) - 1), t \in Types : CallDel(e, t)
    \/ \E f \in 1..Len(filters) : filters[f].lockCount = 0 /\ CallEntitiesWithLock(f)
    \/ \E f \in 1..Len(filters) : CallUnlock(f)

SpecFrame == InitFrame /\ [][NextFrame]_vars

\* The compatibility tests as functions of their inputs: a world with one
\* filter whose lists are any sequences of type IDs the generator accepts
\* (scanFilterConstraints neither sorts nor removes duplicates) and one
\* alive entity that was given the types of a strictly ascending mask.
TypeIDs == 0..MaxTypeID
ConstraintLists == UNION {[1..k -> TypeIDs] : k \in 0..MaxConstraints}
CompatFilters == {NewFilter(include, exclude) : include, exclude \in ConstraintLists}

\* The strictly ascending sequence of the type IDs of a set, and the bitmap
\* with the bits of a mask set.
RECURSIVE AscendingFrom(_, _)
AscendingFrom(S, id) ==
    IF id > MaxTypeID THEN << >>
    ELSE (IF id \in S THEN <<id>> ELSE << >>) \o AscendingFrom(S, id + 1)
AscendingMasks == {AscendingFrom(S, 0) : S \in SUBSET TypeIDs}

\* Set{{$c.Name}} for the types of Mask from position k on, in order, up to
\* the first panic.
RECURSIVE SetAll(_, _, _, _)
SetAll(W, entity, Mask, k) ==
    IF k > Len(Mask) \/ W.fault # NoFault THEN W
    ELSE SetAll(Set(W, entity, Mask[k]), entity, Mask, k + 1)

\* The world after NewWorld with MaxTypeID + 1 pools and the filter f,
\* e = NewEntity() and Set{{$c.Name}}(e) for the types of Mask.
CompatWorld(f, Mask) ==
    SetAll(NewEntity(NewWorld(MaxTypeID + 1, <<f>>)).world, 0, Mask, 1)

\* The worlds of CompatWorld that the calls build without a panic.
InitCompat ==
    \E f \in CompatFilters, Mask \in AscendingMasks :
        LET W == CompatWorld(f, Mask) IN
        /\ W.fault = NoFault
        /\ filters = W.filters
        /\ eager = W.filters
        /\ Entities = W.Entities
        /\ recycledEntities = W.recycledEntities
        /\ Pools = W.Pools
        /\ leakedEntities = W.leakedEntities
        /\ fault = NoFault
        /\ eagerFault = NoFault
        /\ packed = NoPacked
        /\ packedStatus = "none"
        /\ unpackResult = NoResult
        /\ lastOp = Op(IF Mask = << >> THEN "NewEntity" ELSE "Set", 0)
        /\ newCount = 1
        /\ systems = NewSystems
        /\ iter = NoIter
        /\ living = {0}

\* f.isCompatible(&w.Entities[e]): the result is recorded.
CallIsCompatible(f, e) ==
    /\ lastOp' = Op("isCompatible",
                    [typeID |-> -1, result |-> isCompatible(filters[f], Entities[e + 1])])
    /\ UNCHANGED <<Entities, filters, recycledEntities, Pools, leakedEntities, fault,
                   eager, eagerFault, packed, packedStatus, unpackResult, newCount, systems, iter, living>>

\* f.isCompatibleWithout(&w.Entities[e], typeID): the result is recorded.
CallIsCompatibleWithout(f, e, typeID) ==
    /\ lastOp' = Op("isCompatibleWithout",
                    [typeID |-> typeID,
                     result |-> isCompatibleWithout(filters[f], Entities[e + 1], typeID)])
    /\ UNCHANGED <<Entities, filters, recycledEntities, Pools, leakedEntities, fault,
                   eager, eagerFault, packed, packedStatus, unpackResult, newCount, systems, iter, living>>

NextCompat ==
    \/ CallIsCompatible(1, 0)
    \/ \E typeID \in TypeIDs : CallIsCompatibleWithout(1, 0, typeID)

SpecCompat == InitCompat /\ [][NextCompat]_vars

\* ------------------------------------------------- masks of three types
\* A generated world with MaxTypeID + 1 component types and one filter over
\* three of them, and the calls that attach, detach (a type the entity
\* holds) and destroy.
MaskWorlds == { <<NewFilter(<<0, 2>>, <<1>>)>> }
InitMask == \E fs \in MaskWorlds : InitWorldOf(MaxTypeID + 1, fs)

NextMask ==
    \/ CallNewEntity
    \/ \E e \in 0..(Len(Entities) - 1), t \in TypeIDs : CallSet(e, t)
    \/ \E e \in 0..(Len(Entities) - 1), t \in TypeIDs :
          BitSetGet(Entities[e + 1].BitMask, t) /\ CallDel(e, t)
    \/ \E e \in 0..(Len(Entities) - 1) : CallDelEntity(e)

SpecMask == InitMask /\ [][NextMask]_vars

\* ---------------------------------------------------------- iterator API
\* Filter.Iter (filter.go:215-223): the lock counter goes up and the
\* iterator starts before the first of the len(f.entities) entities. The
\* history fields keep the dense sequence and the counter at the call.
Iter(f) ==
    [filter |-> [f EXCEPT !.lockCount = @ + 1],
     len |-> Len(f.entities), idx |-> -1]

\* FilterIter.Next (filter.go:179-186) on the iterator fi of filter f: the
\* new index, the result, and the filter after the unlock that ends the loop.
FilterIterNext(fi, f) ==
    LET idx == fi.idx + 1 IN
    IF idx < fi.len
    THEN [idx |-> idx, ok |-> TRUE, filter |-> f, fault |-> NoFault]
    ELSE [idx |-> idx, ok |-> FALSE, filter |-> Unlock(f).filter, fault |-> Unlock(f).fault]

\* FilterIter.Entity (filter.go:189-191)
FilterIterEntity(fi, f) == f.entities[fi.idx + 1]

\* it := w.Filter(f).Iter(), the start of a loop over the filter.
CallIter(f) ==
    /\ fault = NoFault
    /\ ~iter.active
    /\ filters' = [filters EXCEPT ![f] = Iter(@).filter]
    /\ iter' = [active |-> TRUE, filter |-> f,
                len |-> Iter(filters[f]).len, idx |-> Iter(filters[f]).idx,
                visited |-> << >>, entities |-> filters[f].entities,
                lockCount |-> filters[f].lockCount]
    /\ lastOp' = Op("Iter", 0)
    /\ UNCHANGED <<Entities, recycledEntities, Pools, leakedEntities, fault,
                   eager, eagerFault, packed, packedStatus, unpackResult, newCount, systems, living>>

\* it.Next() at the head of the loop, followed by it.Entity() in the body
\* when it returned true; the structural calls of the body are the steps
\* between two of these.
CallNext ==
    /\ fault = NoFault
    /\ iter.active
    /\ LET r == FilterIterNext(iter, filters[iter.filter])
           fi == [iter EXCEPT !.idx = r.idx]
       IN  /\ filters' = [filters EXCEPT ![iter.filter] = r.filter]
           /\ fault' = r.fault
           /\ iter' = IF r.ok
                      THEN [fi EXCEPT !.visited =
                               Append(@, FilterIterEntity(fi, filters[iter.filter]))]
                      ELSE [fi EXCEPT !.active = FALSE]
           /\ lastOp' = Op("Next", IF r.ok THEN 1 ELSE 0)
    /\ UNCHANGED <<Entities, recycledEntities, Pools, leakedEntities,
                   eager, eagerFault, packed, packedStatus, unpackResult, newCount, systems, living>>

\* Loops over the filter of a world with one filter, with the structural
\* calls before, inside and after the loops.
NextIter ==
    \/ CallNewEntity
    \/ \E e \in 0..(Len(Entities) - 1), t \in Types : CallSet(e, t)
    \/ \E e \in 0..(Len(Entities) - 1), t \in Types : CallDel(e, t)
    \/ \E e \in 0..(Len(Entities) - 1) : CallDelEntity(e)
    \/ \E f \in 1..Len(filters) : CallIter(f)
    \/ CallNext

SpecIter == InitPack /\ [][NextIter]_vars

TypeOK == fault \in STRING

\* ----------------------------------------------------------------- claims
\* The set of component types of a record, and the alive entities whose
\* mask contains every include type of f and no exclude type of f.
MaskSet(e) == Range(Entities[e + 1].Mask)
Matching(f) ==
    {e \in AliveEntities : /\ Range(f.include) \subseteq MaskSet(e)
                           /\ Range(f.exclude) \cap MaskSet(e) = {}}

\* C1: after any sequence of NewEntity / Set<T> / Del<T> / DelEntity calls
\* that raised no panic, the entities in the dense sequence of every unlocked
\* filter are exactly the alive entities whose mask contains every include
\* type and no exclude type of the filter.  Stated for the filters that name
\* at least one include type.
C1_FilterMembership ==
    fault = NoFault =>
        \A f \in 1..Len(filters) :
            (filters[f].lockCount = 0 /\ filters[f].include # << >>) =>
                Range(EntitiesOf(filters[f])) = Matching(filters[f])

\* C2: after any such sequence, Count() of every unlocked filter is the
\* number of alive entities whose mask is a superset of include and disjoint
\* from exclude.  Stated for the entities that hold at least one component.
C2_FilterCount ==
    fault = NoFault =>
        \A f \in 1..Len(filters) :
            filters[f].lockCount = 0 =>
                Count(filters[f]) =
                    Cardinality({e \in Matching(filters[f]) : MaskSet(e) # {}})

\* The structural calls, and the changes applied one after the other, in
\* sequence order, by Filter.add / Filter.remove to an unlocked filter f.
StructuralOps == {"NewEntity", "Set", "Del", "DelEntity"}
IsPrefix(s, t) == Len(s) <= Len(t) /\ SubSeq(t, 1, Len(s)) = s
RECURSIVE ApplyInOrder(_, _)
ApplyInOrder(f, changes) ==
    IF changes = << >> THEN f
    ELSE LET c == Head(changes)
             r == IF c.Add THEN add(f, c.Entity) ELSE remove(f, c.Entity)
         IN  ApplyInOrder(r.filter, Tail(changes))

\* C3: whenever a filter is unlocked in a run that raised no panic, whatever
\* calls were made between its EntitiesWithLock() and the matching Unlock(),
\* its dense sequence is the one the same calls produce when the filter is
\* never locked, and that run raised no panic either.
C3_DeferredEquivalence ==
    \A f \in 1..Len(filters) :
        (fault = NoFault /\ filters[f].lockCount = 0) =>
            /\ eagerFault = NoFault
            /\ EntitiesOf(filters[f]) = EntitiesOf(eager[f])

\* C3 witness: an outermost Unlock() has just replayed two queued changes
\* and the filter holds an entity.
C3_Witness ==
    \E f \in 1..Len(filters) :
        /\ fault = NoFault
        /\ lastOp.op = "Unlock" /\ lastOp.n >= 2
        /\ filters[f].lockCount = 0
        /\ EntitiesOf(filters[f]) # << >>

\* C4: a NewEntity / Set<T> / Del<T> / DelEntity call made while a filter is
\* locked leaves the filter's dense sequence and Count() as they were, only
\* appends to its pending-change queue, and the changes it appends are the
\* ones the same call applies to the filter when it is never locked.
C4_Step(f) ==
    (filters[f].lockCount > 0 /\ lastOp'.op \in StructuralOps) =>
        /\ EntitiesOf(filters'[f]) = EntitiesOf(filters[f])
        /\ Count(filters'[f]) = Count(filters[f])
        /\ IsPrefix(filters[f].lockedChanges, filters'[f].lockedChanges)
        /\ fault' = NoFault =>
              LET queued == SubSeq(filters'[f].lockedChanges,
                                   Len(filters[f].lockedChanges) + 1,
                                   Len(filters'[f].lockedChanges))
              IN  /\ eagerFault' = NoFault
                  /\ EntitiesOf(ApplyInOrder(eager[f], queued)) = EntitiesOf(eager'[f])

\* C4, as a property of every step: a structural call under a lock leaves
\* the locked view alone and queues its membership changes.
C4_LockedViewStable == [][\A f \in 1..Len(filters) : C4_Step(f)]_vars

\* C4 witness: a structural call has just been made under a lock, the queue
\* holds its change, and the view differs from the never-locked filter.
C4_Witness ==
    \E f \in 1..Len(filters) :
        /\ fault = NoFault
        /\ lastOp.op \in StructuralOps
        /\ filters[f].lockCount > 0
        /\ filters[f].lockedChanges # << >>
        /\ EntitiesOf(filters[f]) # << >>
        /\ Range(EntitiesOf(filters[f])) # Range(EntitiesOf(eager[f]))

\* C5: an Unlock() that leaves the lock counter above 0 changes neither the
\* pending queue nor the dense sequence and raises no panic; the Unlock()
\* that brings the counter to 0 applies every queued change in the order it
\* was recorded and leaves the queue empty.
C5_Step(f) ==
    (lastOp'.op = "Unlock" /\ filters'[f].lockCount = filters[f].lockCount - 1) =>
        IF filters'[f].lockCount > 0
        THEN /\ filters'[f].lockedChanges = filters[f].lockedChanges
             /\ EntitiesOf(filters'[f]) = EntitiesOf(filters[f])
             /\ fault' = NoFault
        ELSE fault' = NoFault =>
             /\ filters'[f].lockedChanges = << >>
             /\ EntitiesOf(filters'[f]) =
                    EntitiesOf(ApplyInOrder([filters[f] EXCEPT !.lockCount = 0],
                                            filters[f].lockedChanges))

\* C5, as a property of every step: an inner Unlock() changes nothing, the
\* outermost one replays the queue in recorded order and empties it.
C5_UnlockReplay == [][\A f \in 1..Len(filters) : C5_Step(f)]_vars

\* C5 witness: an inner Unlock() has just returned with two changes still
\* queued and the filter still locked.
C5_Witness ==
    \E f \in 1..Len(filters) :
        /\ fault = NoFault
        /\ lastOp.op = "Unlock"
        /\ filters[f].lockCount = 1
        /\ Len(filters[f].lockedChanges) >= 2

\* C6: an UnpackEntity call on a PackedEntity taken while its entity was
\* alive returns false once the slot has been destroyed and reused by a
\* later NewEntity, whatever happened to the slot afterwards and however
\* many destroy / create cycles it went through before.
C6_StaleAfterReuse ==
    (lastOp.op = "UnpackEntity" /\ packedStatus = "reused") => ~unpackResult.ok

\* C7: an UnpackEntity call on a PackedEntity taken while its entity was
\* alive returns false while the slot, destroyed since, is still free.
C7_StaleWhileFree ==
    (lastOp.op = "UnpackEntity" /\ packedStatus = "destroyed") => ~unpackResult.ok

\* C8: an UnpackEntity call on a PackedEntity whose entity e has not been
\* destroyed since PackEntity(e) returns (e, true).
C8_PackUnpackRoundTrip ==
    (lastOp.op = "UnpackEntity" /\ packedStatus = "live") =>
        unpackResult = [entity |-> packed.idx, ok |-> TRUE]

\* C8 witness: UnpackEntity has just succeeded for the second entity, which
\* holds a component, while the slot of the first one is free.
C8_Witness ==
    /\ lastOp.op = "UnpackEntity"
    /\ packedStatus = "live"
    /\ unpackResult = [entity |-> 1, ok |-> TRUE]
    /\ Entities[2].Mask # << >>
    /\ recycledEntities = <<0>>

\* C9: an UnpackEntity call on a PackedEntity whose generation differs from
\* the generation of its slot returns (0, false), raises no panic and leaves
\* the entity records, the filters, the pools and the free stack unchanged.
C9_Step ==
    (lastOp'.op = "UnpackEntity" /\ packed.gen # Entities[packed.idx + 1].Gen) =>
        /\ unpackResult' = [entity |-> 0, ok |-> FALSE]
        /\ fault' = NoFault
        /\ UNCHANGED <<Entities, filters, recycledEntities, Pools>>

\* C9, as a property of every step: unpacking a stale PackedEntity returns
\* (0, false) without panic and without changing the world.
C9_StaleUnpackFails == [][C9_Step]_vars

\* C9 witness: UnpackEntity has just failed for a stale PackedEntity of the
\* slot with index 1.
C9_Witness ==
    /\ lastOp.op = "UnpackEntity"
    /\ packed.idx = 1
    /\ packed.gen # Entities[2].Gen
    /\ unpackResult = [entity |-> 0, ok |-> FALSE]
    /\ fault = NoFault

\* C10: when Del<T>(e) returns for an alive entity e that holds T, e is
\* either still alive with a non-empty mask (it held another type), or it is
\* fully destroyed as by DelEntity(e): its mask is empty, its generation is
\* negated and incremented, its slot is pushed on the free stack and e is in
\* the dense sequence of no filter.
C10_Step(e, t) ==
    (CallDel(e, t) /\ BitSetGet(Entities[e + 1].BitMask, t) /\ fault' = NoFault) =>
        IF Len(Entities[e + 1].Mask) > 1
        THEN /\ e \notin Range(recycledEntities')
             /\ Entities'[e + 1].Mask # << >>
             /\ Entities'[e + 1].Gen = Entities[e + 1].Gen
        ELSE /\ Entities'[e + 1].Mask = << >>
             /\ Entities'[e + 1].Gen = -(Entities[e + 1].Gen + 1)
             /\ recycledEntities' = Push(recycledEntities, e)
             /\ \A f \in 1..Len(filters) : e \notin Range(EntitiesOf(filters'[f]))

\* C10, as a property of every step: Del<T>(e) leaves e alive with a
\* non-empty mask or fully destroyed and in no filter.
C10_DelLastDestroys ==
    [][\A e \in 0..(Len(Entities) - 1), t \in Types : C10_Step(e, t)]_vars

\* C11: Set<T>(e) on an alive entity that already holds T raises no panic,
\* leaves the entity records (mask, bitmap), every filter (dense sequence and
\* pending queue), the pools (the stored value) and the free stack unchanged,
\* and returns the pointer to the existing component with its value.
C11_Step(e, t) ==
    (lastOp'.op = "Set" /\ BitSetGet(Entities[e + 1].BitMask, t) /\ CallSet(e, t)) =>
        /\ fault' = NoFault
        /\ UNCHANGED <<Entities, filters, recycledEntities, Pools>>
        /\ SetResult(World, e, t) = ComponentRef(e, t)
        /\ Pools'[t + 1][e + 1] = Deref(World, ComponentRef(e, t))

\* C11, as a property of every step.
C11_SetExistingNoOp ==
    [][\A e \in 0..(Len(Entities) - 1), t \in Types : C11_Step(e, t)]_vars

\* C11 witness: the only entity holds C1 alone, with a value written by the
\* caller, and the last call was a Set: it was SetC1 on the entity holding C1.
C11_Witness ==
    /\ fault = NoFault
    /\ lastOp.op = "Set"
    /\ Len(Entities) = 1
    /\ recycledEntities = << >>
    /\ Entities[1].Mask = <<0>>
    /\ Pools[1][1] \in Values

\* C12: Del<T>(e) on an alive entity that does not hold T raises no panic
\* and leaves the entity records, the filters, the pools and the free stack
\* unchanged.
C12_Step(e, t) ==
    (lastOp'.op = "Del" /\ ~BitSetGet(Entities[e + 1].BitMask, t) /\ CallDel(e, t)) =>
        /\ fault' = NoFault
        /\ UNCHANGED <<Entities, filters, recycledEntities, Pools>>

\* C12, as a property of every step.
C12_DelAbsentNoOp ==
    [][\A e \in 0..(Len(Entities) - 1), t \in Types : C12_Step(e, t)]_vars

\* C12 witness: the last call was a Del and the only entity is alive with
\* an empty mask next to an entity in a filter: the Del found no component.
C12_Witness ==
    /\ fault = NoFault
    /\ lastOp.op = "Del"
    /\ Len(Entities) = 2
    /\ recycledEntities = << >>
    /\ Entities[1].Mask = << >>
    /\ Entities[2].Mask = <<0, 1>>

\* C13: in the DEBUG build DelEntity on an entity that is already dead
\* panics; it does not change the generation of the record and does not push
\* the slot on the free stack a second time.
C13_DelDeadFaults ==
    [][lastOp'.op = "DelEntityDead" =>
          /\ DEBUG => fault' # NoFault
          /\ \A e \in 0..(Len(Entities) - 1) : Entities'[e + 1].Gen = Entities[e + 1].Gen
          /\ recycledEntities' = recycledEntities]_vars

\* C14: in the DEBUG build Unlock() on a filter whose lock counter is 0
\* panics with the balance fault; after every other call (balanced nested
\* EntitiesWithLock / Unlock pairs included) no counter is below 0 and the
\* balance fault is not raised.
C14_UnlockBalance ==
    [][/\ lastOp'.op = "UnlockUnbalanced" =>
             (DEBUG => fault' = "filter lock/unlock balance broken")
       /\ lastOp'.op # "UnlockUnbalanced" =>
             /\ fault' # "filter lock/unlock balance broken"
             /\ \A f \in 1..Len(filters) : filters'[f].lockCount >= 0]_vars

\* C14 witness: the unbalanced Unlock panicked on a filter that holds an
\* entity, after the world was used.
C14_Witness ==
    /\ lastOp.op = "UnlockUnbalanced"
    /\ fault = "filter lock/unlock balance broken"
    /\ filters[1].lockCount = -1
    /\ Len(filters[1].entities) = 1
    /\ newCount = MaxCreates

\* Mask and BitMask of a record name the same component types.
MaskAgrees(entityData) ==
    \A t \in Types : (t \in Range(entityData.Mask)) <=> BitSetGet(entityData.BitMask, t)
AllAgree(calls) ==
    \A k \in 1..Len(calls) : \A i \in 1..Len(calls[k].Entities) :
        MaskAgrees(calls[k].Entities[i])

\* C15: for every entity record and component type t, t is in the Mask if
\* and only if bit t of the BitMask is set, after every NewEntity / Set<T> /
\* Del<T> / DelEntity call and in every world in which one of these calls
\* invokes UpdateFilters.
C15_MaskBitMaskAgree ==
    [][/\ \A i \in 1..Len(Entities') : MaskAgrees(Entities'[i])
       /\ \A e \in 0..(Len(Entities) - 1), t \in Types :
             /\ (lastOp'.op = "Set" /\ CallSet(e, t)) => AllAgree(SetCalls(World, e, t))
             /\ (lastOp'.op = "Del" /\ CallDel(e, t)) => AllAgree(DelCalls(World, e, t))
       /\ \A e \in 0..(Len(Entities) - 1) :
             (lastOp'.op = "DelEntity" /\ CallDelEntity(e)) =>
                 AllAgree(DelEntityCalls(World, e, Len(Entities[e + 1].Mask) - 1))]_vars

\* C15 witness: DelEntity destroyed the second entity (its mask is cut and
\* its bits cleared entry by entry) while the first entity holds C2 alone,
\* in a world with a filter on both types.
C15_Witness ==
    /\ fault = NoFault
    /\ lastOp.op = "DelEntity"
    /\ Len(Entities) = 2
    /\ recycledEntities = <<1>>
    /\ Pools[2][2] = DefaultValue
    /\ Entities[1].Mask = <<1>>
    /\ \E f \in 1..Len(filters) : filters[f].include = <<0, 1>>

\* The largest value of the int16 field Gen.
MaxInt16 == 32767

\* C16: in every reachable state every entity record has a non-zero
\* generation whose sign encodes liveness: Gen > 0 exactly for the entities
\* returned by NewEntity and not destroyed since, Gen < 0 exactly for the
\* slots on the recycled stack.
C16_GenSignIsLiveness ==
    \A e \in 0..(Len(Entities) - 1) :
        /\ Entities[e + 1].Gen # 0
        /\ Entities[e + 1].Gen > 0 <=> Alive(e)
        /\ Entities[e + 1].Gen < 0 <=> e \in Range(recycledEntities)

\* C17: the generation wraps safely in int16. A destroy of an entity whose
\* generation is the largest int16 value leaves the slot free with Gen = -1,
\* so that its next live generation is 1; every destroy leaves a negative
\* generation in the freed slot and every NewEntity a positive generation
\* in the slot it returns.
C17_GenWrapSafe ==
    [][\A e \in 0..(Len(Entities) - 1) :
          /\ (Alive(e) /\ e \in Range(recycledEntities')) =>
                /\ Entities[e + 1].Gen = MaxInt16 => Entities'[e + 1].Gen = -1
                /\ Entities'[e + 1].Gen < 0
          /\ (e \in Range(recycledEntities) /\ e \notin Range(recycledEntities')) =>
                Entities'[e + 1].Gen > 0]_vars

\* C18: NewEntity() returns an alive entity with a positive generation, an
\* empty mask and an all-zero bitmap that is in the dense sequence of no
\* filter. With a non-empty free stack it is the most recently freed slot,
\* popped from the stack, with the sign of its generation flipped; otherwise
\* it is a new record with generation 1 appended at index len(Entities).
C18_NewEntityFresh ==
    [][lastOp'.op = "NewEntity" =>
          LET n == Len(recycledEntities)
              e == IF n > 0 THEN recycledEntities[n] ELSE Len(Entities)
          IN  /\ fault' = NoFault
              /\ NewEntity(World).entity = e
              /\ e \notin Range(recycledEntities')
              /\ Entities'[e + 1].Gen > 0
              /\ Entities'[e + 1].Mask = << >>
              /\ \A t \in Types : ~BitSetGet(Entities'[e + 1].BitMask, t)
              /\ \A f \in 1..Len(filters) : e \notin Range(filters'[f].entities)
              /\ IF n > 0
                 THEN /\ recycledEntities' = SubSeq(recycledEntities, 1, n - 1)
                      /\ Len(Entities') = Len(Entities)
                      /\ Entities'[e + 1].Gen = -(Entities[e + 1].Gen)
                 ELSE /\ recycledEntities' = << >>
                      /\ Len(Entities') = Len(Entities) + 1
                      /\ Entities'[e + 1].Gen = 1]_vars

\* C19: after a DelEntity(e) call on an alive entity with no filter locked,
\* the mask of e is empty, its bitmap all zero, e is in the dense sequence
\* of no filter and its slot is on the free stack.
C19_DelEntityClears ==
    [][\A e \in 0..(Len(Entities) - 1) :
          (/\ CallDelEntity(e)
           /\ \A f \in 1..Len(filters) : filters[f].lockCount = 0
           /\ fault' = NoFault) =>
              /\ Entities'[e + 1].Mask = << >>
              /\ \A t \in Types : ~BitSetGet(Entities'[e + 1].BitMask, t)
              /\ \A f \in 1..Len(filters) : e \notin Range(filters'[f].entities)
              /\ e \in Range(recycledEntities')]_vars

\* C20: after a World.Destroy() call with no filter locked, no entity record
\* has Gen > 0 and every record is on the free stack, every mask is empty
\* and Count() of every filter is 0.
C20_DestroyDrains ==
    [][(/\ lastOp'.op = "Destroy"
        /\ \A f \in 1..Len(filters) : filters[f].lockCount = 0) =>
           /\ \A e \in 0..(Len(Entities') - 1) :
                 /\ ~(Entities'[e + 1].Gen > 0)
                 /\ e \in Range(recycledEntities')
                 /\ Entities'[e + 1].Mask = << >>
           /\ \A f \in 1..Len(filters') : Count(filters'[f]) = 0]_vars

\* The world of the scenario: F1 = WithC1 (include A), F2 = WithC1C2 (include
\* A and B), F3 = WithoutC2 (exclude B, no include type), with A = C1, B = C2.
ScenarioWorld ==
    /\ Len(filters) = 3
    /\ filters[1].include = <<0>> /\ filters[1].exclude = << >>
    /\ filters[2].include = <<0, 1>> /\ filters[2].exclude = << >>
    /\ filters[3].include = << >> /\ filters[3].exclude = <<1>>
InFilterAfter(f, e) == e \in Range(filters'[f].entities)

\* C21: in the world with F1, F2 and F3, on the first entity e1 of the world:
\* creating e1 and attaching A puts e1 into F1 and F3; attaching B then puts
\* e1 into F2 and takes it out of F3; detaching A while e1 holds B takes e1
\* out of F1 and F2; detaching B then destroys e1 and puts its slot on the
\* free stack; none of these calls panics.
C21_Scenario ==
    [][(ScenarioWorld /\ Len(Entities') = 1 /\ recycledEntities = << >>) =>
          /\ lastOp'.op = "NewEntity" => fault' = NoFault
          /\ (lastOp'.op = "Set" /\ Entities[1].Mask = << >> /\ CallSet(0, 0)) =>
                /\ fault' = NoFault
                /\ InFilterAfter(1, 0)
                /\ InFilterAfter(3, 0)
          /\ (lastOp'.op = "Set" /\ Entities[1].Mask = <<0>> /\ CallSet(0, 1)) =>
                /\ fault' = NoFault
                /\ InFilterAfter(2, 0)
                /\ ~InFilterAfter(3, 0)
          /\ (lastOp'.op = "Del" /\ Entities[1].Mask = <<0, 1>> /\ CallDel(0, 0)) =>
                /\ fault' = NoFault
                /\ ~InFilterAfter(1, 0)
                /\ ~InFilterAfter(2, 0)
          /\ (lastOp'.op = "Del" /\ Entities[1].Mask = <<1>> /\ CallDel(0, 1)) =>
                /\ fault' = NoFault
                /\ Entities'[1].Mask = << >>
                /\ recycledEntities' = <<0>>]_vars

\* C22: the component obtained by Set<T>(e) on an entity that did not hold T
\* has the default value of T, whatever was written into the pool slot
\* during an earlier attachment of T to e or to an earlier occupant of the
\* slot of e; while T stays attached, Set<T>(e) and Get<T>(e) leave the
\* written value in place and Get<T>(e) reads it.
C22_Step(e, t) ==
    /\ (lastOp'.op = "Set" /\ ~BitSetGet(Entities[e + 1].BitMask, t) /\ CallSet(e, t)
        /\ fault' = NoFault) =>
           Pools'[SetResult(World, e, t).pool + 1][SetResult(World, e, t).idx + 1]
               = DefaultValue
    /\ (lastOp'.op = "Set" /\ BitSetGet(Entities[e + 1].BitMask, t) /\ CallSet(e, t)) =>
           Pools'[t + 1][e + 1] = Pools[t + 1][e + 1]
    /\ (lastOp'.op = "Get" /\ BitSetGet(Entities[e + 1].BitMask, t) /\ CallGet(e, t)) =>
           /\ Pools'[t + 1][e + 1] = Pools[t + 1][e + 1]
           /\ lastOp'.n = Pools[t + 1][e + 1]

\* C22, as a property of every step.
C22_FreshComponentDefault ==
    [][\A e \in 0..(Len(Entities) - 1), t \in Types : C22_Step(e, t)]_vars

\* C22 witness: Set attached C2 to an entity that lives in a reused slot
\* (generation 2) and holds a written C1 value; the C2 value is the default.
C22_Witness ==
    /\ fault = NoFault
    /\ lastOp.op = "Set"
    /\ Len(Entities) = 1
    /\ Entities[1].Gen = 2
    /\ Entities[1].Mask = <<0, 1>>
    /\ Pools[1][1] \in Values
    /\ Pools[2][1] = DefaultValue

\* C23: for an alive entity e, Get<T>(e) returns nil exactly when T is not
\* in the mask of e and the pointer to the attached component otherwise; it
\* does not panic and changes no state of the world.
C23_Step(e, t) ==
    (lastOp'.op = "Get" /\ CallGet(e, t)) =>
        /\ fault' = NoFault
        /\ UNCHANGED <<Entities, filters, recycledEntities, Pools, leakedEntities>>
        /\ (Get(World, e, t) = Nil) <=> (t \notin Range(Entities[e + 1].Mask))
        /\ (lastOp'.n = -1) <=> (t \notin Range(Entities[e + 1].Mask))
        /\ (t \in Range(Entities[e + 1].Mask)) =>
              /\ Get(World, e, t) = ComponentRef(e, t)
              /\ lastOp'.n = Pools[t + 1][e + 1]

\* C23, as a property of every step.
C23_GetAbsentIsNil ==
    [][\A e \in 0..(Len(Entities) - 1), t \in Types : C23_Step(e, t)]_vars

\* C23 witness: the last call was a Get that returned nil, on a world whose
\* only entity holds C1 with a written value and no C2.
C23_Witness ==
    /\ fault = NoFault
    /\ lastOp = Op("Get", -1)
    /\ Len(Entities) = 1
    /\ recycledEntities = << >>
    /\ Entities[1].Mask = <<0>>
    /\ Pools[1][1] \in Values

\* The alive entities holding type t, and the pool slot Set<T> / Get<T>
\* hand out for the component of type t of entity e.
Holders(t) == {e \in AliveEntities : BitSetGet(Entities[e + 1].BitMask, t)}
SlotOf(e, t) == SetResult(World, e, t).idx

\* C24: in every reachable state no two alive entities that both hold a
\* component of type T use the same slot index of T's pool, and slot index 0
\* of a pool is never handed out for a component.
C24_PoolSlotExclusive ==
    \A t \in Types :
        /\ \A e1, e2 \in Holders(t) : e1 # e2 => SlotOf(e1, t) # SlotOf(e2, t)
        /\ \A e \in Holders(t) : SlotOf(e, t) # 0

\* Some entity created since the last check that returned false (NewEntity
\* appends it to leakedEntities, a check that returns false empties the
\* list) is alive with an empty mask.
LeakNow ==
    \E e \in Range(leakedEntities) : Alive(e) /\ Entities[e + 1].Mask = << >>
SomeFilterLocked == \E f \in 1..Len(filters) : filters[f].lockCount # 0

\* C25: in the DEBUG build the list of the entities created since the last
\* check that returned false is kept by NewEntity (the entity returned is
\* appended) and by the check (emptied when it returns false, kept when it
\* returns true); checkLeakedEntities() returns true exactly when one of
\* these entities is alive with an empty mask at check time, and the check
\* the Systems container runs after a system callback then panics.
C25_LeakCheck ==
    [][DEBUG =>
       /\ (lastOp'.op = "NewEntity" /\ fault' = NoFault) =>
             leakedEntities' = Append(leakedEntities, NewEntity(World).entity)
       /\ lastOp'.op \notin {"NewEntity", "Check"} => leakedEntities' = leakedEntities
       /\ lastOp'.op = "Check" =>
             /\ checkLeakedEntities(World).result <=> LeakNow
             /\ LeakNow => (fault' = "entity leak detected"
                            /\ leakedEntities' = leakedEntities)
             /\ ~LeakNow => (fault' # "entity leak detected"
                             /\ leakedEntities' = << >>)]_vars

\* C26: checkLeakedFilters() returns true exactly when the lock counter of
\* some filter is not zero, and in the DEBUG build the check the Systems
\* container runs after a system callback panics when a filter is left
\* locked, and does not panic when no filter is locked and no entity leaked.
C26_LockedFilterCheck ==
    [][/\ checkLeakedFilters(World) <=> SomeFilterLocked
       /\ (DEBUG /\ lastOp'.op = "Check") =>
             /\ SomeFilterLocked => fault' # NoFault
             /\ (SomeFilterLocked /\ ~LeakNow) =>
                   fault' = "filter invalid lock/unlock detected"
             /\ (~SomeFilterLocked /\ ~LeakNow) => fault' = NoFault]_vars

\* C26 witness: the check after a callback panicked because the callback
\* left the filter, which holds an entity, locked twice.
C26_Witness ==
    /\ lastOp.op = "Check"
    /\ fault = "filter invalid lock/unlock detected"
    /\ filters[1].lockCount = 2
    /\ Len(filters[1].entities) = 1

\* The systems of the Add history types that requested the flag type, in
\* the order they were added (from the k-th Add call on), and the callbacks
\* of one phase on them.
RECURSIVE Requesting(_, _, _)
Requesting(types, type, k) ==
    IF k > Len(types) THEN << >>
    ELSE (IF type \in types[k] THEN <<k>> ELSE << >>) \o Requesting(types, type, k + 1)
PhaseCalls(types, type) ==
    LET list == Requesting(types, type, 1)
    IN  [i \in 1..Len(list) |-> [phase |-> type, system |-> list[i]]]

\* The callbacks a container call owes to the systems of the Add history
\* types, and the place of a callback in its call: first or second phase.
CallsOwed(call, types) ==
    CASE call = "Init" -> PhaseCalls(types, "PreInit") \o PhaseCalls(types, "Init")
      [] call = "Run" -> PhaseCalls(types, "Run")
      [] call = "Destroy" -> PhaseCalls(types, "Destroy") \o PhaseCalls(types, "PostDestroy")
      [] call = "none" -> << >>
PhaseRank(phase) == IF phase \in {"Init", "PostDestroy"} THEN 2 ELSE 1

\* The callbacks made by the container call of S that is running or ran
\* last, and the flag of the first loop of a container call.
CallsMadeBy(S) == SubSeq(S.log, S.mark + 1, Len(S.log))
FirstPhase(call) ==
    CASE call = "Init" -> "PreInit"
      [] call = "Destroy" -> "Destroy"
      [] OTHER -> "Run"

\* The callbacks of a container call made so far are in the order of the
\* phases and, within a phase, in the order the systems were added, no
\* system twice; each system requested the callback it got.
CallsInOrder(S) ==
    LET made == CallsMadeBy(S) IN
    /\ \A i, j \in 1..Len(made) :
          i < j => \/ PhaseRank(made[i].phase) < PhaseRank(made[j].phase)
                   \/ /\ made[i].phase = made[j].phase
                      /\ made[i].system < made[j].system
    /\ \A i \in 1..Len(made) : made[i].phase \in S.types[made[i].system]

\* The systems added before the container call started got, of the
\* callbacks the call owes them, those up to the running one, and all of
\* them when the call has returned.
CallsOfRegistered(S, returned) ==
    LET made == CallsMadeBy(S)
        owed == CallsOwed(S.call, S.registered)
        registered == SelectSeq(made, LAMBDA c : c.system <= Len(S.registered))
    IN  /\ registered = SubSeq(owed, 1, Len(registered))
        /\ returned => registered = owed

\* The order of the callbacks for the systems added before a container
\* call starts: in every state, the callbacks of the call are in order and
\* the systems registered when it started were called as owed.
SystemsOrderOfRegistered ==
    /\ CallsInOrder(systems)
    /\ CallsOfRegistered(systems, ~systems.running /\ fault = NoFault)

\* C27: Systems.Init() calls PreInit of every registered PreInit system
\* before the first Init of any Init system, Systems.Destroy() calls Destroy
\* of every Destroy system before the first PostDestroy, each Systems.Run()
\* calls Run of every Run system exactly once, and within each phase the
\* systems are called in the order they were added: when a step makes the
\* first callback of the second loop of a call, every system registered by
\* then with the flag of the first loop has had its callback in this call;
\* the callbacks of a call are in order; a call that returns has made the
\* callbacks owed to the systems registered when it was called.
C27_SystemsOrder ==
    [][LET made == CallsMadeBy(systems')
           n == Len(made)
           first == FirstPhase(systems'.call)
       IN  /\ (/\ Len(systems'.log) = Len(systems.log) + 1
               /\ PhaseRank(made[n].phase) = 2
               /\ \A i \in 1..(n - 1) : PhaseRank(made[i].phase) = 1)
                  => \A system \in 1..Len(systems'.types) :
                        first \in systems'.types[system] =>
                            \E i \in 1..n : made[i] = [phase |-> first, system |-> system]
           /\ CallsInOrder(systems')
           /\ CallsOfRegistered(systems', ~systems'.running /\ fault' = NoFault)]_vars

\* A mask is strictly ascending: sorted, no type ID twice.
StrictlyAscending(Mask) == \A i \in 1..(Len(Mask) - 1) : Mask[i] < Mask[i + 1]

\* The IDs two masks have in common, in the order of the first.
CommonIDs(Mask, Other) == SelectSeq(Mask, LAMBDA id : id \in Range(Other))

\* C28: in every reachable state the Mask of every entity record is strictly
\* ascending (sorted, no type ID twice): Set inserts the type at its sorted
\* position, Del and DelEntity remove without disturbing the order of the
\* remaining IDs. Every step leaves every mask strictly ascending and the
\* IDs a record keeps in the order they had.
C28_MaskAscending ==
    [][\A e \in 1..Len(Entities') :
          /\ StrictlyAscending(Entities'[e].Mask)
          /\ e <= Len(Entities) =>
                CommonIDs(Entities[e].Mask, Entities'[e].Mask)
                    = CommonIDs(Entities'[e].Mask, Entities[e].Mask)]_vars

\* C28 witness: a Del removed the middle type of the three-entry mask of the
\* first entity (every Del of these runs removes a type; the second entity
\* holds three types, so it was not the one).
C28_Witness ==
    /\ fault = NoFault
    /\ lastOp.op = "Del"
    /\ Len(Entities) = 2
    /\ Entities[1].Mask = <<0, 2>>
    /\ Entities[2].Mask = <<0, 1, 2>>

\* The entity-to-position map of a filter agrees with its dense sequence.
MapAgrees(f) ==
    /\ DOMAIN f.entitiesMap = Range(f.entities)
    /\ \A i, j \in 1..Len(f.entities) : f.entities[i] = f.entities[j] => i = j
    /\ \A e \in DOMAIN f.entitiesMap :
          /\ f.entitiesMap[e] + 1 \in 1..Len(f.entities)
          /\ f.entities[f.entitiesMap[e] + 1] = e

\* C29: in every reachable state of every filter the map's keys are exactly
\* the entities of the dense sequence, each entity occurs in the sequence at
\* most once, and for every key e the sequence holds e at position
\* entitiesMap[e], also after swap-with-last removals.
C29_MapAgreesWithDense ==
    \A f \in 1..Len(filters) : MapAgrees(filters[f])

\* The filter mentions the type in its include or in its exclude list.
Mentions(f, t) == t \in Range(f.include) \cup Range(f.exclude)

\* C30: attaching or detaching type t on an entity changes neither the dense
\* sequence nor the pending queue of any filter that mentions t in neither
\* its include list nor its exclude list.
C30_UnmentionedFilterFrame ==
    [][\A e \in 0..(Len(Entities) - 1), t \in Types :
          (/\ lastOp'.op \in {"Set", "Del"}
           /\ Alive(e)
           /\ LET W2 == IF lastOp'.op = "Set" THEN Set(World, e, t) ELSE Del(World, e, t)
              IN  /\ Entities' = W2.Entities
                  /\ filters' = W2.filters
                  /\ fault' = W2.fault) =>
              \A f \in 1..Len(filters) :
                  ~Mentions(filters[f], t) =>
                      /\ filters'[f].entities = filters[f].entities
                      /\ filters'[f].lockedChanges = filters[f].lockedChanges]_vars

\* C30 witness: the filter WithC1, which does not mention C2, is locked with
\* one entity in its dense sequence and one addition pending, and a Set left
\* the entity of the dense sequence with both components.
C30_Witness ==
    /\ fault = NoFault
    /\ lastOp.op = "Set"
    /\ Len(filters) = 1
    /\ filters[1].lockCount > 0
    /\ filters[1].entities = <<0>>
    /\ filters[1].lockedChanges = <<[Entity |-> 1, Add |-> TRUE]>>
    /\ Entities[1].Mask = <<0, 1>>

\* The world after the call of the step, when the step is the call named op
\* on entity e (with type t for Set and Del).
StepIs(W2) ==
    /\ Entities' = W2.Entities
    /\ filters' = W2.filters
    /\ recycledEntities' = W2.recycledEntities
    /\ fault' = W2.fault

\* Every entity other than e keeps its record and its membership of every
\* dense sequence.
OthersKept(e) ==
    \A o \in 0..(Len(Entities) - 1) :
        o # e =>
            /\ Entities'[o + 1] = Entities[o + 1]
            /\ \A f \in 1..Len(filters) :
                  o \in Range(filters'[f].entities) <=> o \in Range(filters[f].entities)

\* C31: a Set, Del or DelEntity call on entity e never changes another
\* entity: mask, bitmap and generation of every other entity are unchanged
\* and it is in a filter's dense sequence after the call if and only if it
\* was in it before.
C31_OtherEntitiesFrame ==
    [][\A e \in 0..(Len(Entities) - 1) :
          /\ \A t \in Types :
                (/\ lastOp'.op \in {"Set", "Del"}
                 /\ Alive(e)
                 /\ StepIs(IF lastOp'.op = "Set" THEN Set(World, e, t) ELSE Del(World, e, t)))
                    => OthersKept(e)
          /\ (/\ lastOp'.op = "DelEntity"
              /\ Alive(e)
              /\ StepIs(DelEntity(World, e)))
                 => OthersKept(e)]_vars

\* The mask with the type removed.
MaskWithout(Mask, typeID) == SelectSeq(Mask, LAMBDA id : id # typeID)

\* C32: for every filter, every strictly ascending mask and every type t,
\* isCompatibleWithout(mask, t) returns what isCompatible returns on the mask
\* with t removed; it is false whenever t is in include, and t is ignored
\* when checking exclude.
C32_WithoutIsCompatibleOnReducedMask ==
    lastOp.op = "isCompatibleWithout" =>
        LET t == lastOp.n.typeID
            reduced == [Entities[1] EXCEPT !.Mask = MaskWithout(@, t)]
        IN  /\ lastOp.n.result = isCompatible(filters[1], reduced)
            /\ t \in Range(filters[1].include) => ~lastOp.n.result

\* C32 witness: the test succeeded for a type that is in the mask and in the
\* exclude list of a filter that also has an include type.
C32_Witness ==
    /\ lastOp.op = "isCompatibleWithout"
    /\ lastOp.n.result
    /\ lastOp.n.typeID \in Range(Entities[1].Mask)
    /\ lastOp.n.typeID \in Range(filters[1].exclude)
    /\ filters[1].include # << >>
    /\ Len(Entities[1].Mask) = 3

\* The component types whose bit the step changed on entity e.
ChangedTypes(e) ==
    {t \in Types : BitSetGet(Entities[e + 1].BitMask, t)
                       # BitSetGet(Entities'[e + 1].BitMask, t)}

\* The record of e when the k-th UpdateFilters call of the step has returned
\* and the code up to the next call (or to the end of the operation) has
\* run, and the types the k-th call saw in the mask that are gone by then.
RecordAfter(calls, e, k) ==
    IF k < Len(calls) THEN calls[k + 1].Entities[e + 1] ELSE Entities'[e + 1]
DetachedAt(calls, e, k) ==
    Range(calls[k].Entities[e + 1].Mask) \ Range(RecordAfter(calls, e, k).Mask)

\* The calls of a detaching operation: one per structural change, each with
\* exactly one type that is in mask and bitmap at the call and in neither
\* right after it.
DetachCallsOk(calls, e) ==
    /\ fault' = NoFault => Len(calls) = Cardinality(ChangedTypes(e))
    /\ fault' = NoFault =>
          \A k \in 1..Len(calls) :
              /\ Cardinality(DetachedAt(calls, e, k)) = 1
              /\ \A x \in DetachedAt(calls, e, k) :
                    /\ BitSetGet(calls[k].Entities[e + 1].BitMask, x)
                    /\ ~BitSetGet(RecordAfter(calls, e, k).BitMask, x)

\* C33: UpdateFilters is called exactly once per structural change and always
\* sees the type in the entity's mask and bitmap: for an attach it is called
\* after the type was inserted, for a detach (Del or each step of DelEntity)
\* before the type is removed, and the type is removed right after the call
\* returns.
C33_UpdateFiltersCallSites ==
    [][\A e \in 0..(Len(Entities) - 1) :
          /\ \A t \in Types :
                /\ (/\ lastOp'.op = "Set"
                    /\ Alive(e)
                    /\ StepIs(Set(World, e, t))) =>
                       LET calls == SetCalls(World, e, t) IN
                       /\ Len(calls) = Cardinality(ChangedTypes(e))
                       /\ ChangedTypes(e) \subseteq {t}
                       /\ \A k \in 1..Len(calls) :
                             /\ t \in Range(calls[k].Entities[e + 1].Mask)
                             /\ BitSetGet(calls[k].Entities[e + 1].BitMask, t)
                             /\ t \notin Range(Entities[e + 1].Mask)
                /\ (/\ lastOp'.op = "Del"
                    /\ Alive(e)
                    /\ StepIs(Del(World, e, t))) =>
                       /\ DetachCallsOk(DelCalls(World, e, t), e)
                       /\ fault' = NoFault => ChangedTypes(e) \subseteq {t}
          /\ (/\ lastOp'.op = "DelEntity"
              /\ Alive(e)
              /\ StepIs(DelEntity(World, e))) =>
                 DetachCallsOk(DelEntityCalls(World, e, Len(Entities[e + 1].Mask) - 1), e)]_vars

\* C33 witness: DelEntity ran on an entity holding both types (two calls of
\* UpdateFilters) while another entity holds both types, each attached by a
\* Set with one call.
C33_Witness ==
    /\ fault = NoFault
    /\ lastOp.op = "DelEntity"
    /\ Len(Entities) = 2
    /\ Entities[1].Mask = << >>
    /\ Entities[1].Gen = -2
    /\ Pools[1][1] = DefaultValue
    /\ Entities[2].Mask = <<0, 1>>

\* The magnitude of a generation.
Magnitude(gen) == IF gen < 0 THEN -gen ELSE gen

\* C34: below the wrap point, each DelEntity of a slot raises the magnitude
\* of the slot's generation by exactly one and the reuse by NewEntity keeps
\* the magnitude, so the new occupant of a reused slot has the generation of
\* the previous occupant plus one.
C34_GenerationCounts ==
    [][\A e \in 0..(Len(Entities) - 1) :
          /\ (/\ Alive(e)
              /\ e \in Range(recycledEntities')
              /\ Entities[e + 1].Gen \in 1..(MaxInt16 - 1)) =>
                 /\ Magnitude(Entities'[e + 1].Gen) = Magnitude(Entities[e + 1].Gen) + 1
                 /\ Entities'[e + 1].Gen = -(Entities[e + 1].Gen + 1)
          /\ (/\ e \in Range(recycledEntities)
              /\ e \notin Range(recycledEntities')
              /\ Entities[e + 1].Gen \in (-MaxInt16)..(-1)) =>
                 /\ Magnitude(Entities'[e + 1].Gen) = Magnitude(Entities[e + 1].Gen)
                 /\ Entities'[e + 1].Gen = -Entities[e + 1].Gen]_vars

\* C34 witness: NewEntity returned a slot for the third time: its occupants
\* had the generations 1, 2 and now 3.
C34_Witness ==
    /\ fault = NoFault
    /\ lastOp.op = "NewEntity"
    /\ Len(Entities) = 1
    /\ recycledEntities = << >>
    /\ Entities[1].Gen = 3

\* The two panics of the DEBUG membership tests.
MembershipPanics == {"entity already in filter", "entity not in filter"}

\* C35: in DEBUG builds with no filter locked, Filter.add of an entity
\* already in the filter and Filter.remove of an entity not in the filter
\* panic instead of changing the dense sequence, and no sequence of
\* NewEntity / Set / Del / DelEntity calls on alive entities with all filters
\* unlocked triggers either panic.
C35_NoMembershipPanic ==
    /\ \A f \in 1..Len(filters), e \in 0..(Len(Entities) - 1) :
          filters[f].lockCount = 0 =>
              /\ e \in DOMAIN filters[f].entitiesMap =>
                    /\ add(filters[f], e).fault = "entity already in filter"
                    /\ add(filters[f], e).filter.entities = filters[f].entities
              /\ e \notin DOMAIN filters[f].entitiesMap =>
                    /\ remove(filters[f], e).fault = "entity not in filter"
                    /\ remove(filters[f], e).filter.entities = filters[f].entities
    /\ fault \notin MembershipPanics

\* C36: in DEBUG builds a sequence of Set / Del / DelEntity calls on alive
\* entities that raises no fault when every filter is unlocked raises no
\* "entity already in filter" / "entity not in filter" panic when it is
\* issued while a filter is locked.
C36_NoMembershipPanicUnderLock ==
    eagerFault = NoFault => fault \notin MembershipPanics

\* The entity records that hold an entity: a record is taken from its
\* NewEntity until its DelEntity. AliveBefore is the set before the step.
AliveBefore == {e \in 0..(Len(Entities) - 1) : e \notin Range(recycledEntities)}

\* The stack holds indices of records, each at most once.
StackWellFormed(stack, records) ==
    /\ \A i, j \in 1..Len(stack) : stack[i] = stack[j] => i = j
    /\ Range(stack) \subseteq 0..(Len(records) - 1)

\* C37: in every state reached by NewEntity / Set / Del / DelEntity calls on
\* alive entities the recycled-entity stack holds exactly the indices of the
\* free entity records, each exactly once: NewEntity takes the index it
\* returns off the stack or appends a record, a destroy puts the index of
\* the destroyed entity on the stack once, nothing else changes the stack;
\* so NewEntity never returns an index that is alive and two alive entities
\* never share an index.
C37_RecycledStackExact ==
    [][/\ StackWellFormed(recycledEntities', Entities')
       /\ lastOp'.op = "NewEntity" =>
             LET entity == NewEntity(World).entity IN
             /\ entity \notin AliveBefore
             /\ entity \notin Range(recycledEntities')
             /\ Range(recycledEntities') = Range(recycledEntities) \ {entity}
             /\ Len(Entities') = IF recycledEntities = << >>
                                 THEN Len(Entities) + 1 ELSE Len(Entities)
       /\ (lastOp'.op = "Set" /\ fault' = NoFault) =>
             recycledEntities' = recycledEntities /\ Len(Entities') = Len(Entities)
       /\ (lastOp'.op \in {"Del", "DelEntity"} /\ fault' = NoFault) =>
             /\ Len(Entities') = Len(Entities)
             /\ \/ lastOp'.op = "Del" /\ recycledEntities' = recycledEntities
                \/ \E e \in AliveBefore :
                      /\ recycledEntities' = Append(recycledEntities, e)
                      /\ Entities'[e + 1].Mask = << >>]_vars

\* C37 witness: of two destroyed entities NewEntity has reused the one
\* destroyed last; the other record is still free and on the stack.
C37_Witness ==
    /\ fault = NoFault
    /\ lastOp.op = "NewEntity"
    /\ Len(Entities) = 2
    /\ recycledEntities = <<0>>
    /\ Entities[1].Gen = -2
    /\ Entities[2].Gen = 2

\* C38: for every filter in every state reached with balanced lock / unlock
\* calls the lock counter is never negative and the pending-change queue is
\* empty whenever the lock counter is 0.
C38_QueueEmptyWhenUnlocked ==
    \A f \in 1..Len(filters) :
        /\ filters[f].lockCount >= 0
        /\ filters[f].lockCount = 0 => filters[f].lockedChanges = << >>

\* C38 witness: the outermost Unlock() has just replayed two queued changes
\* and left the queue empty, the filter unlocked and an entity in it.
C38_Witness ==
    /\ fault = NoFault
    /\ lastOp = Op("Unlock", 2)
    /\ filters[1].lockCount = 0
    /\ filters[1].lockedChanges = << >>
    /\ filters[1].entities # << >>

\* C39: a loop that calls Iter() and then Next() until it returns false
\* visits exactly the entities that were in the filter when Iter() was
\* called, each once, also when the loop body attaches and detaches
\* components that change the membership of the filter; when Next() returns
\* false the lock counter is back to its value before Iter() and, if that
\* is 0, the queued changes have been applied.
C39_IterVisitsSnapshot ==
    (lastOp = Op("Next", 0) /\ fault = NoFault) =>
        /\ Range(iter.visited) = Range(iter.entities)
        /\ \A i, j \in 1..Len(iter.visited) : iter.visited[i] = iter.visited[j] => i = j
        /\ filters[iter.filter].lockCount = iter.lockCount
        /\ iter.lockCount = 0 => filters[iter.filter].lockedChanges = << >>

====
